---------------------------- MODULE Spec2Model ----------------------------
(***************************************************************************)
(* State-machine model of the BLE orchestrator daemon                      *)
(* (ble_orchestrator/orchestrator): the priority request queue and its     *)
(* workers, the request handler, the scanner loop with the scanner/client  *)
(* exclusive-control handshake, and the notification connector.            *)
(*                                                                         *)
(* Time is kept as elapsed-time counters in seconds that advance by        *)
(* Quantum at every Tick and stop growing once they have passed the limit  *)
(* they are compared with.  Sleeps shorter than Quantum and steps that do  *)
(* not wait for anything are taken before the clock advances (Urgent).     *)
(***************************************************************************)
EXTENDS Integers, Sequences, FiniteSets

(***************************************************************************)
(* Bounds of the model.                                                    *)
(***************************************************************************)
\* number of request ids (uuid4 strings, ordered as strings are)
NumIds == 3
\* characteristics of the address the notification manager connects to
NumChars == 2
\* IPC connections that subscribe to notifications
NumWriters == 2
\* connector tasks that exist at one time
MaxTasks == 2
\* notifications the driver emits
MaxEmit == 2
\* recovery tasks of the watchdog that exist at once
MaxRecoveries == 2
\* callbacks waiting in the event loop's ready queue
MaxReady == 3
\* messages the IPC clients send
MaxMessages == 2
\* addresses the scanner sees, results it adds to the cache
NumAddrs == 2
MaxResults == 4
\* seconds between two readings of the clock of the cache, and its last value
CacheQuantum == 150
MaxNow == 900
\* seconds that pass at one Tick
Quantum == 20
\* the longer of the two request timeouts a client may ask for
LongTimeout == 40

(***************************************************************************)
(* Program constants.                                                      *)
(***************************************************************************)
\* config.py
REQUEST_MAX_AGE_SEC == 30
DEFAULT_REQUEST_TIMEOUT_SEC == 10
BLE_RETRY_COUNT == 2
SCAN_COMMAND_PARALLEL_WORKERS == 3
CONSECUTIVE_FAILURES_THRESHOLD == 3
SCAN_CACHE_TTL_SEC == 300
\* scanner.py ScanCache.__init__: _cleanup_interval, deque(maxlen=10)
CLEANUP_INTERVAL_SEC == 300
DEQUE_MAXLEN == 10
BLE_ADAPTERS == <<"hci0", "hci1">>
\* handler.py: wait_for(scan_completed_event.wait(), timeout=10.0)
SCAN_STOP_WAIT_SEC == 10
\* scanner.py: wait_for(_client_completed.wait(), timeout=60.0)
CLIENT_WAIT_SEC == 60
\* scanner.py: self._deadlock_threshold
deadlock_threshold == 90
\* notification_manager.py: max_retry
max_retry == 5

\* RequestPriority
HIGH == 0
NORMAL == 1
LOW == 2

Ids == 1..NumIds
Timeouts == {DEFAULT_REQUEST_TIMEOUT_SEC, LongTimeout}
MainKinds == {"READ", "WRITE"}
ScanWorkers == 1..SCAN_COMMAND_PARALLEL_WORKERS
TerminalStatus == {"COMPLETED", "FAILED", "TIMEOUT"}

VARIABLES
    request,              \* request_id -> BLERequest fields ("NONE": not created);
                          \* age is now - created_at while the request waits or is
                          \* processed (nothing reads it later: it goes back to 0),
                          \* done counts the calls of mark_as_done
    queue,                \* RequestQueueManager._queue: set of <<priority, request_id>>
    scan_queue,           \* RequestQueueManager._scan_queue: FIFO of request ids
    active_requests,      \* RequestQueueManager._active_requests: set of ids
    stats,                \* RequestQueueManager._stats
    skip_old_requests,    \* RequestQueueManager._skip_old_requests
    request_max_age_sec,  \* RequestQueueManager._request_max_age_sec
    main,                 \* the main worker and the handler call it awaits
    scan_cur,             \* scan worker -> id of the request it dispatches (0: none)
    consecutive_failures, \* BLERequestHandler._consecutive_failures
    exclusive,            \* handler/notification manager: _exclusive_control_enabled and _scanner
    scanner_stopping,     \* scanner.py global _scanner_stopping
    client_connecting,    \* scanner.py global _client_connecting
    scan_ready,           \* scanner.py global event _scan_ready
    scan_completed,       \* scanner.py global event _scan_completed
    client_completed,     \* scanner.py global event _client_completed
    scanner_active,       \* BLEScanner._scanner_active
    exclusive_age,        \* now - BLEScanner._exclusive_control_start_time (-1: None)
    scan,                 \* position of BLEScanner._scan_loop
    conn,                 \* the notification connector task of one address
    component_issues,     \* BLEWatchdog._component_issues: the component names
                          \* notify_component_issue was called with
    enqueued              \* history: ids in the order enqueue_request accepted them

\* the components with a specification of their own (their variables stay
\* as they are in the steps of the request path and of the handshake)
VARIABLES
    nm,                   \* NotificationManager: _callback_map, _subscriptions,
                          \* _active_connections, _tasks, _lock and the connector
                          \* tasks of one address
    notification_subscribers, \* IPCServer._notification_subscribers
    connections,          \* IPCServer._connections
    command,              \* connection -> the subscribe command whose
                          \* process_notification_request waits for _lock
    lines,                \* connection -> the notification lines written to it
    deliveries,           \* the tasks of _notification_handler that have not ended
    emissions,            \* history: the notifications the driver emitted
    unsubscribed          \* history: <<connection, characteristic>> unsubscribed

ipcvars == <<notification_subscribers, connections, command>>
dvars == <<lines, deliveries, emissions, unsubscribed>>
nvars == <<nm, ipcvars, dvars>>

VARIABLES
    watchdog              \* BLEWatchdog: _recovery_in_progress, the recovery tasks,
                          \* the position of _watchdog_loop, and the callbacks the
                          \* event loop has ready, in the order it will run them

VARIABLES
    client,               \* connection -> where its _handle_client is: pc "read"
                          \* (awaiting readline) or "wait_done" (_process_command
                          \* awaits wait_until_done of request req); count and last:
                          \* the messages it has answered and the kind of the last
    replies,              \* connection -> the response lines written to it
    owner,                \* history: request id -> the connection that sent it
    response_data         \* request id -> BLERequest.response_data of a ScanRequest

ipcreq == <<client, replies, owner>>

VARIABLES
    cache                 \* ScanCache: _cache (entries), _last_cleanup, the clock
                          \* time.time() (now); history: the results added

VARIABLES
    config_written        \* history: the skip_old_requests and max_age_sec a
                          \* caller wrote last (<<>>: nothing written yet)

VARIABLES
    service               \* BLEOrchestratorService: where start()/stop() stand
                          \* and what each component has running

VARIABLES
    idq                   \* the requests enqueue_request accepted, as objects
                          \* apart from their ids (requests), the keys of
                          \* _active_requests (active: id -> object, 0 absent)
                          \* and the objects in the main queue (queue)

VARIABLES
    recreation            \* BLEScanner: _recreate_count, _no_devices_count, the
                          \* ages now - _last_recreate_time and now - _last_scan_time,
                          \* whether the cache holds a result (seen), the scan loop
                          \* (pc); history: the value of _recreate_count at each
                          \* notification by _notify_watchdog_if_needed (notified)
                          \* and after each recreation that sent none (quiet)

VARIABLES
    fullrec               \* one run of BLEWatchdog._recover_ble_adapter: the await
                          \* it stands at (pc), its locals adapter_issues,
                          \* still_problematic, final_issues and the result of the
                          \* restart command; history: whether the run called
                          \* _reset_failures_func and how it ended

VARIABLES
    sweep                 \* RequestQueueManager: _queue.qsize() (main) and
                          \* _scan_queue.qsize() (scan); history: the total the last
                          \* run of _cleanup_old_requests saw (-1: none has run) and
                          \* the levels of the log records it wrote about it

newest == <<idq, recreation, fullrec, sweep>>
later == <<cache, config_written, service, newest>>
apart == <<nvars, watchdog, later, ipcreq, response_data>>

qvars == <<request, queue, scan_queue, active_requests, stats,
           skip_old_requests, request_max_age_sec, main, scan_cur,
           consecutive_failures, enqueued>>
hvars == <<exclusive, scanner_stopping, client_connecting, scan_ready,
           scan_completed, client_completed, scanner_active, exclusive_age,
           scan, conn, component_issues>>
xvars == <<hvars, apart>>
\* all but the notification manager and the notification side of the IPC server
notnm == <<qvars, hvars, watchdog, later, ipcreq, response_data>>
vars == <<qvars, xvars>>

(***************************************************************************)
(* Helpers.                                                                *)
(***************************************************************************)
Max(a, b) == IF a >= b THEN a ELSE b

\* an elapsed-time counter after one Tick; it stops once it is past limit
Later(t, limit) == IF t > limit THEN t ELSE t + Quantum

\* types.py BLERequest: the fields of a request that has not been created
NoRequest ==
    [kind |-> "NONE", priority |-> NORMAL, timeout_sec |-> DEFAULT_REQUEST_TIMEOUT_SEC,
     status |-> "NONE", error_message |-> "None", age |-> 0, done |-> 0]

\* types.py BLERequest.mark_as_done: _done_event.set(); done counts the calls
mark_as_done(r) == [r EXCEPT !.done = @ + 1]

IdleMain == [pc |-> "idle", req |-> 0, elapsed |-> 0, retry |-> 0, hs |-> 0]

\* a queue that orders its entries by request_id alone
TupleLessByIdOnly(e, f) == e[2] < f[2]

\* the order of the tuples (priority, request_id, request) in the heap of
\* asyncio.PriorityQueue: by priority, then by request_id
TupleLess(e, f) == e[1] < f[1] \/ (e[1] = f[1] /\ e[2] < f[2])

\* a queue that hands out the tuple that was put first
FirstPut(q) ==
    CHOOSE e \in q : \A f \in q :
        \A i, j \in 1..Len(enqueued) :
            (enqueued[i] = e[2] /\ enqueued[j] = f[2]) => i <= j

\* asyncio.PriorityQueue.get: the least tuple of the heap
HeapMin(q) == CHOOSE e \in q : \A f \in q \ {e} : TupleLess(e, f)

\* RequestQueueManager._is_request_too_old
IsRequestTooOld(id) ==
    /\ skip_old_requests
    /\ request[id].age > request_max_age_sec

\* RequestQueueManager._cleanup_old_requests, when the cleanup interval has
\* passed: finished requests and requests older than 1.5 * max age leave
\* _active_requests
CleanupOldRequests(active) ==
    {id \in active :
        /\ request[id].status \notin TerminalStatus
        /\ ~(2 * request[id].age > 3 * request_max_age_sec)}

\* a finally block that counts the outcome and leaves processing_requests
CountFinalKeepsProcessing(st, status) ==
    IF status = "COMPLETED" THEN [st EXCEPT !.completed_requests = @ + 1]
    ELSE IF status = "FAILED" THEN [st EXCEPT !.failed_requests = @ + 1]
    ELSE IF status = "TIMEOUT" THEN [st EXCEPT !.timeout_requests = @ + 1]
    ELSE st

\* the update of _stats in the finally block of the worker loops
CountFinal(st, status) ==
    LET s1 == IF status = "COMPLETED"
                 THEN [st EXCEPT !.completed_requests = @ + 1]
              ELSE IF status = "FAILED"
                 THEN [st EXCEPT !.failed_requests = @ + 1]
              ELSE IF status = "TIMEOUT"
                 THEN [st EXCEPT !.timeout_requests = @ + 1]
              ELSE st
    IN [s1 EXCEPT !.processing_requests = Max(0, @ - 1)]

(***************************************************************************)
(* scanner.py: the exclusive-control calls made by client operations.      *)
(***************************************************************************)
\* BLEScanner.request_scanner_stop
request_scanner_stop ==
    /\ scanner_stopping' = TRUE
    /\ client_connecting' = TRUE
    /\ exclusive_age' = 0

\* BLEScanner.notify_client_completed
notify_client_completed ==
    /\ client_connecting' = FALSE
    /\ scanner_stopping' = FALSE
    /\ client_completed' = TRUE
    /\ exclusive_age' = -1

(***************************************************************************)
(* RequestQueueManager.enqueue_request                                     *)
(***************************************************************************)
enqueue_request(id, kind, prio, timeout) ==
    /\ request[id].status = "NONE"
    /\ request' = [request EXCEPT ![id] =
                     [kind |-> kind, priority |-> prio, timeout_sec |-> timeout,
                      status |-> "PENDING", error_message |-> "None",
                      age |-> 0, done |-> 0]]
    /\ IF kind = "SCAN"
          THEN /\ scan_queue' = Append(scan_queue, id)
               /\ queue' = queue
               /\ stats' = [stats EXCEPT !.total_requests = @ + 1,
                                         !.scan_requests = @ + 1]
          ELSE /\ queue' = queue \cup {<<prio, id>>}
               /\ scan_queue' = scan_queue
               /\ stats' = [stats EXCEPT !.total_requests = @ + 1]
    /\ active_requests' = active_requests \cup {id}
    /\ enqueued' = Append(enqueued, id)
    /\ UNCHANGED <<skip_old_requests, request_max_age_sec, main, scan_cur,
                   consecutive_failures>>

(***************************************************************************)
(* RequestQueueManager._worker_loop: one pass from the top of the loop to  *)
(* the call of the handler (or to `continue` for a request that is too     *)
(* old).  due: whether the cleanup interval has passed.                    *)
(***************************************************************************)
WorkerDequeue(due) ==
    /\ main.pc = "idle"
    /\ queue # {}
    /\ LET e == HeapMin(queue)
           id == e[2]
           active == IF due THEN CleanupOldRequests(active_requests)
                            ELSE active_requests
       IN /\ queue' = queue \ {e}
          /\ IF IsRequestTooOld(id)
                THEN /\ request' = [request EXCEPT ![id].status = "FAILED",
                                                   ![id].error_message = "skipped",
                                                   ![id].age = 0]
                     /\ active_requests' = active \ {id}
                     /\ stats' = [stats EXCEPT !.skipped_requests = @ + 1]
                     /\ UNCHANGED main
                ELSE /\ request' = [request EXCEPT ![id].status = "PROCESSING"]
                     /\ active_requests' = active
                     /\ stats' = [stats EXCEPT !.processing_requests = @ + 1]
                     /\ main' = [IdleMain EXCEPT !.pc = "start", !.req = id]
    /\ UNCHANGED <<scan_queue, skip_old_requests, request_max_age_sec, scan_cur,
                   consecutive_failures, enqueued, xvars>>

(***************************************************************************)
(* BLERequestHandler.handle_request and _handle_read_request /             *)
(* _handle_write_request, cut at their awaits.  main.pc names the await    *)
(* the call is suspended at:                                               *)
(*   start        the worker has called wait_for(handle_request(request))  *)
(*   wait_scan    wait_for(scan_completed_event.wait(), timeout=10.0)      *)
(*   connect      BleakClient.__aenter__ (inside both locks)               *)
(*   op           read_gatt_char, or write_gatt_char and the read after it *)
(*   disconnect   BleakClient.__aexit__ after `return`                     *)
(*   retry_sleep  asyncio.sleep(BLE_RETRY_INTERVAL_SEC)                    *)
(*   returned / raised / cancelled   handle_request has ended; the worker  *)
(*                has not yet run its except/finally blocks                *)
(***************************************************************************)
HandlerAwaits == {"wait_scan", "connect", "op", "disconnect", "retry_sleep"}

\* the awaits inside `async with _ble_operation_lock` of handler.py
HandlerRadio == {"connect", "op", "disconnect", "retry_sleep"}

clientflags == <<scanner_stopping, client_connecting, client_completed, exclusive_age>>
wiring == <<exclusive, scan_ready, scanner_active, scan, conn, apart>>
otherx == <<wiring, component_issues>>

\* BLEOrchestratorService._notify_watchdog, the only function the service
\* hands out as notify_watchdog_func: notify_component_issue("scanner", ...)
notify_watchdog ==
    component_issues' = component_issues \cup {"scanner"}

\* `self._notify_watchdog_func` of the handler: service.py constructs
\* BLERequestHandler without notify_watchdog_func (None)
handler_notify_watchdog_func == FALSE

\* `if self._exclusive_control_enabled and self._scanner:` request_scanner_stop()
Engage ==
    IF exclusive THEN request_scanner_stop /\ UNCHANGED client_completed
                 ELSE UNCHANGED clientflags

\* the finally block of _handle_read_request / _handle_write_request
Release ==
    IF exclusive THEN notify_client_completed ELSE UNCHANGED clientflags

\* handle_request, lines after the dispatch returned
HandlerSucceeded(id) ==
    /\ consecutive_failures' = 0
    /\ request' = [request EXCEPT ![id] = mark_as_done(@)]
    /\ main' = [main EXCEPT !.pc = "returned"]

\* a handler that does not count the failure
HandlerFailedUncounted(id, msg) ==
    /\ consecutive_failures' = consecutive_failures
    /\ request' = [request EXCEPT ![id] =
                     mark_as_done([@ EXCEPT !.status = "FAILED",
                                            !.error_message = msg])]
    /\ main' = [main EXCEPT !.pc = "raised"]

\* handle_request, `except Exception as e:`
HandlerFailed(id, msg) ==
    /\ consecutive_failures' = consecutive_failures + 1
    /\ request' = [request EXCEPT ![id] =
                     mark_as_done([@ EXCEPT !.status = "FAILED",
                                            !.error_message = msg])]
    /\ main' = [main EXCEPT !.pc = "raised"]

mainrest == <<queue, scan_queue, active_requests, stats, skip_old_requests,
              request_max_age_sec, scan_cur, enqueued>>

\* handle_request up to the first await of _handle_read/_write_request.
\* found: whether _get_device_func finds the address in the scan cache.
HandlerStart(found) ==
    /\ main.pc = "start"
    /\ IF ~found
          THEN /\ HandlerFailed(main.req, "not_found")
               /\ UNCHANGED clientflags
          ELSE /\ main' = [main EXCEPT !.pc = IF exclusive THEN "wait_scan"
                                                            ELSE "connect"]
               /\ Engage
               /\ UNCHANGED <<request, consecutive_failures>>
    /\ UNCHANGED <<mainrest, otherx, scan_completed>>

\* the wait for _scan_completed ends: the event is set (and is cleared), or
\* the 10 s have passed
HandlerScanStopped ==
    /\ main.pc = "wait_scan"
    /\ scan_completed \/ main.hs >= SCAN_STOP_WAIT_SEC
    /\ scan_completed' = FALSE
    /\ main' = [main EXCEPT !.pc = "connect"]
    /\ UNCHANGED <<request, consecutive_failures, mainrest, otherx, clientflags>>

\* an attempt failed with BleakError or asyncio.TimeoutError: sleep and
\* retry, or after the last attempt raise BleakError
AttemptFailed ==
    IF main.retry < BLE_RETRY_COUNT - 1
       THEN /\ main' = [main EXCEPT !.pc = "retry_sleep"]
            /\ UNCHANGED <<request, consecutive_failures, clientflags,
                           component_issues>>
       ELSE /\ IF handler_notify_watchdog_func THEN notify_watchdog
                                               ELSE UNCHANGED component_issues
            /\ HandlerFailed(main.req, "ble_failed")
            /\ Release

\* BleakClient connects
ConnectOk ==
    /\ main.pc = "connect"
    /\ main' = [main EXCEPT !.pc = "op"]
    /\ UNCHANGED <<request, consecutive_failures, mainrest, xvars>>

\* BleakClient fails to connect
ConnectFail ==
    /\ main.pc = "connect"
    /\ AttemptFailed
    /\ UNCHANGED <<mainrest, wiring, scan_completed>>

\* the read or write succeeds: request.status = COMPLETED; return
OpOk ==
    /\ main.pc = "op"
    /\ request' = [request EXCEPT ![main.req].status = "COMPLETED"]
    /\ main' = [main EXCEPT !.pc = "disconnect"]
    /\ UNCHANGED <<consecutive_failures, mainrest, xvars>>

\* the read or write fails (the client disconnects on the way out)
OpFail ==
    /\ main.pc = "op"
    /\ AttemptFailed
    /\ UNCHANGED <<mainrest, wiring, scan_completed>>

\* the disconnect of __aexit__ succeeds: the finally block, then the rest
\* of handle_request
DisconnectOk ==
    /\ main.pc = "disconnect"
    /\ HandlerSucceeded(main.req)
    /\ Release
    /\ UNCHANGED <<mainrest, otherx, scan_completed>>

\* the disconnect of __aexit__ raises BleakError
DisconnectFail ==
    /\ main.pc = "disconnect"
    /\ AttemptFailed
    /\ UNCHANGED <<mainrest, wiring, scan_completed>>

\* asyncio.sleep(BLE_RETRY_INTERVAL_SEC) ends: the next attempt
RetrySleepDone ==
    /\ main.pc = "retry_sleep"
    /\ main' = [main EXCEPT !.pc = "connect", !.retry = @ + 1]
    /\ UNCHANGED <<request, consecutive_failures, mainrest, xvars>>

\* wait_for(..., timeout=request.timeout_sec) of the worker expires: the
\* handler task is cancelled at its await.  CancelledError passes every
\* `except Exception`; the finally block of _handle_read/_write_request runs
\* only if the try around the BLE lock had been entered.
DeadlineCancel ==
    /\ main.pc \in HandlerAwaits
    /\ main.elapsed >= request[main.req].timeout_sec
    /\ main' = [main EXCEPT !.pc = "cancelled"]
    /\ IF main.pc \in HandlerRadio THEN Release ELSE UNCHANGED clientflags
    /\ UNCHANGED <<request, consecutive_failures, mainrest, otherx, scan_completed>>

\* a worker that reports an expired deadline as a failure
FinalStatusNoTimeout(pc) == IF pc = "returned" THEN "COMPLETED" ELSE "FAILED"

\* the status the worker sets after wait_for has ended
FinalStatus(pc) ==
    IF pc = "returned" THEN "COMPLETED"
    ELSE IF pc = "cancelled" THEN "TIMEOUT"
    ELSE "FAILED"

\* the error message the worker sets after wait_for has ended
FinalMessage(pc, msg) ==
    IF pc = "returned" THEN msg
    ELSE IF pc = "cancelled" THEN "timed_out"
    ELSE msg

\* _worker_loop after wait_for: the status, the statistics, task_done and
\* the removal from _active_requests
WorkerFinish ==
    /\ main.pc \in {"returned", "raised", "cancelled"}
    /\ LET id == main.req
           st == FinalStatus(main.pc)
       IN /\ request' = [request EXCEPT
                           ![id].status = st,
                           ![id].error_message = FinalMessage(main.pc, @),
                           ![id].age = 0]
          /\ stats' = CountFinal(stats, st)
          /\ active_requests' = active_requests \ {id}
    /\ main' = IdleMain
    /\ UNCHANGED <<queue, scan_queue, skip_old_requests, request_max_age_sec,
                   scan_cur, consecutive_failures, enqueued, xvars>>

(***************************************************************************)
(* RequestQueueManager._scan_worker_loop                                   *)
(***************************************************************************)
\* a scan worker that takes a lookup only while the main worker is idle
ScanDequeueAfterMain(w) ==
    /\ main.pc = "idle"
    /\ scan_cur[w] = 0
    /\ scan_queue # <<>>
    /\ request' = [request EXCEPT ![Head(scan_queue)].status = "PROCESSING"]
    /\ scan_queue' = Tail(scan_queue)
    /\ stats' = [stats EXCEPT !.processing_requests = @ + 1]
    /\ scan_cur' = [scan_cur EXCEPT ![w] = Head(scan_queue)]
    /\ UNCHANGED <<queue, active_requests, skip_old_requests, request_max_age_sec,
                   main, consecutive_failures, enqueued, xvars>>

\* from the top of the loop to the call of the handler
ScanDequeue(w) ==
    /\ scan_cur[w] = 0
    /\ scan_queue # <<>>
    /\ LET id == Head(scan_queue)
       IN /\ scan_queue' = Tail(scan_queue)
          /\ IF IsRequestTooOld(id)
                THEN /\ request' = [request EXCEPT ![id].status = "FAILED",
                                                   ![id].error_message = "skipped",
                                                   ![id].age = 0]
                     /\ active_requests' = active_requests \ {id}
                     /\ stats' = [stats EXCEPT !.skipped_requests = @ + 1,
                                               !.scan_failed = @ + 1]
                     /\ UNCHANGED scan_cur
                ELSE /\ request' = [request EXCEPT ![id].status = "PROCESSING"]
                     /\ stats' = [stats EXCEPT !.processing_requests = @ + 1]
                     /\ scan_cur' = [scan_cur EXCEPT ![w] = id]
                     /\ UNCHANGED active_requests
    /\ UNCHANGED <<queue, skip_old_requests, request_max_age_sec, main,
                   consecutive_failures, enqueued, xvars>>

\* the result object of _handle_scan_request: the cache holds a valid record
\* of the address (found) or not
ScanResponse(found) == IF found THEN "scan_result" ELSE "not found or expired"

\* _handle_scan_request if it raised for an address without a valid record:
\* handle_request would set FAILED and count the failure
ScanFinishRaises(w, found) ==
    /\ scan_cur[w] # 0
    /\ LET id == scan_cur[w]
           status == IF found THEN "COMPLETED" ELSE "FAILED"
       IN /\ request' = [request EXCEPT ![id] =
                           mark_as_done([@ EXCEPT
                               !.status = status, !.age = 0,
                               !.error_message = IF found THEN @
                                                 ELSE "not found or expired"])]
          /\ active_requests' = active_requests \ {id}
          /\ consecutive_failures' = IF found THEN 0 ELSE consecutive_failures + 1
          /\ stats' = CountFinal([stats EXCEPT !.scan_completed = @ + 1], status)
          /\ response_data' = [response_data EXCEPT ![id] =
                                 IF found THEN ScanResponse(found) ELSE @]
    /\ scan_cur' = [scan_cur EXCEPT ![w] = 0]
    /\ UNCHANGED <<queue, scan_queue, skip_old_requests, request_max_age_sec,
                   main, enqueued, hvars, nvars, watchdog, later, ipcreq>>

\* handle_request -> _handle_scan_request (no await: it reads the cache,
\* sets response_data and COMPLETED), then the rest of the loop body
ScanFinish(w, found) ==
    /\ scan_cur[w] # 0
    /\ LET id == scan_cur[w]
       IN /\ request' = [request EXCEPT ![id] =
                           mark_as_done([@ EXCEPT !.status = "COMPLETED", !.age = 0])]
          /\ active_requests' = active_requests \ {id}
    /\ consecutive_failures' = 0
    /\ stats' = CountFinal([stats EXCEPT !.scan_completed = @ + 1], "COMPLETED")
    /\ response_data' = [response_data EXCEPT ![scan_cur[w]] = ScanResponse(found)]
    /\ scan_cur' = [scan_cur EXCEPT ![w] = 0]
    /\ UNCHANGED <<queue, scan_queue, skip_old_requests, request_max_age_sec,
                   main, enqueued, hvars, nvars, watchdog, later, ipcreq>>

(***************************************************************************)
(* Other entry points.                                                     *)
(***************************************************************************)
\* BLERequestHandler.reset_failure_count (called by the watchdog)
reset_failure_count ==
    /\ consecutive_failures' = 0
    /\ UNCHANGED <<request, queue, scan_queue, active_requests, stats,
                   skip_old_requests, request_max_age_sec, main, scan_cur,
                   enqueued, xvars>>

(***************************************************************************)
(* BLEScanner._scan_loop, cut at its awaits.  scan.pc:                     *)
(*   loop         the top of the while loop                                *)
(*   stop         _stop_current_scanner: wait_for(scanner.stop(), 5.0)     *)
(*   wait_client  wait_for(_client_completed.wait(), timeout=60.0)         *)
(*   restart      await self.scanner.start()                               *)
(*   sleep        asyncio.sleep(SCAN_INTERVAL_SEC)                         *)
(*   dead         the loop has ended (`except Exception` of _scan_loop)    *)
(*   off          the scan loop is not part of the specification           *)
(***************************************************************************)
scanrest == <<exclusive, scan_ready, conn, component_issues, apart>>

\* the outcomes of _recreate_scanner: it returns without doing anything
\* (_should_skip_recreation), it starts a new BleakScanner, or starting the
\* new scanner raises
RecreateOutcomes == {"skipped", "recreated", "raised"}

\* `while not self._stop_event.is_set():` and the test of _scanner_stopping
ScanLoopTop ==
    /\ scan.pc = "loop"
    /\ scan' = [scan EXCEPT !.pc = IF scanner_stopping THEN "stop" ELSE "sleep"]
    /\ UNCHANGED <<qvars, scanrest, clientflags, scan_completed, scanner_active>>

\* _stop_current_scanner ends (whatever scanner.stop() did, the finally
\* clears _scanner_active); _scan_completed.set()
ScanStopped ==
    /\ scan.pc = "stop"
    /\ scanner_active' = FALSE
    /\ scan_completed' = TRUE
    /\ scan' = [scan EXCEPT !.pc = "wait_client", !.wait = 0]
    /\ UNCHANGED <<qvars, scanrest, clientflags>>

\* the wait for _client_completed ends: the event is set or the 60 s have
\* passed; _client_completed.clear()
ScanClientDone ==
    /\ scan.pc = "wait_client"
    /\ client_completed \/ scan.wait >= CLIENT_WAIT_SEC
    /\ client_completed' = FALSE
    /\ scan' = [scan EXCEPT !.pc = "restart", !.wait = 0]
    /\ UNCHANGED <<qvars, scanrest, scanner_stopping, client_connecting,
                   exclusive_age, scan_completed, scanner_active>>

\* scanner.start() succeeds; _scan_ready.set()
ScanRestartOk ==
    /\ scan.pc = "restart"
    /\ scanner_active' = TRUE
    /\ scan_ready' = TRUE
    /\ scan' = [scan EXCEPT !.pc = "sleep"]
    /\ UNCHANGED <<qvars, exclusive, conn, clientflags, scan_completed,
                   component_issues, apart>>

\* scanner.start() raises: _recreate_scanner()
ScanRestartFail(outcome) ==
    /\ scan.pc = "restart"
    /\ scanner_active' = (outcome = "recreated")
    /\ scan_ready' = IF outcome = "raised" THEN scan_ready ELSE TRUE
    /\ scan' = [scan EXCEPT !.pc = IF outcome = "raised" THEN "dead" ELSE "sleep"]
    /\ IF outcome = "skipped" THEN UNCHANGED component_issues
                              ELSE notify_watchdog
    /\ UNCHANGED <<qvars, exclusive, conn, clientflags, scan_completed, apart>>

\* the deadlock detection of _scan_loop
DeadlockDetected == exclusive_age >= 0 /\ exclusive_age > deadlock_threshold

\* the sleep ends: deadlock detection, then _check_recreation_needed and,
\* if it says so (need), _recreate_scanner
ScanTick(need, outcome) ==
    /\ scan.pc = "sleep"
    /\ IF DeadlockDetected
          THEN /\ scanner_stopping' = FALSE
               /\ client_connecting' = FALSE
               /\ client_completed' = TRUE
               /\ exclusive_age' = -1
          ELSE UNCHANGED clientflags
    /\ IF need
          THEN /\ scanner_active' = IF outcome = "skipped" THEN scanner_active
                                    ELSE (outcome = "recreated")
               /\ scan' = [scan EXCEPT !.pc = IF outcome = "raised" THEN "dead"
                                                                   ELSE "loop"]
               /\ IF outcome = "skipped" THEN UNCHANGED component_issues
                                         ELSE notify_watchdog
          ELSE /\ scan' = [scan EXCEPT !.pc = "loop"]
               /\ UNCHANGED <<scanner_active, component_issues>>
    /\ UNCHANGED <<qvars, exclusive, scan_ready, conn, scan_completed, apart>>

(***************************************************************************)
(* NotificationManager._manage_device_connection of one address, cut at    *)
(* its awaits.  conn.pc:                                                   *)
(*   none       no connector task                                          *)
(*   begin      the top of `while self._is_running`                        *)
(*   wait_scan  await scan_completed_event.wait()  (no timeout)            *)
(*   connect    await client.connect() inside self._lock                   *)
(*   watch      `while client.is_connected`: asyncio.sleep(1)              *)
(*   backoff    asyncio.sleep(retry_delay) of the except blocks            *)
(*   ended      the task has returned                                      *)
(***************************************************************************)
connrest == <<exclusive, scan_ready, scanner_active, scan, component_issues,
              apart>>

\* process_notification_request creates the connector task
ConnectorStart ==
    /\ conn.pc = "none"
    /\ conn' = [conn EXCEPT !.pc = "begin"]
    /\ UNCHANGED <<qvars, connrest, clientflags, scan_completed>>

\* the top of the loop: request_scanner_stop() if exclusive control applies
ConnectorBegin ==
    /\ conn.pc = "begin"
    /\ conn' = [conn EXCEPT !.pc = IF exclusive THEN "wait_scan" ELSE "connect"]
    /\ Engage
    /\ UNCHANGED <<qvars, connrest, scan_completed>>

\* _scan_completed is set: scan_completed_event.clear()
ConnectorScanStopped ==
    /\ conn.pc = "wait_scan"
    /\ scan_completed
    /\ scan_completed' = FALSE
    /\ conn' = [conn EXCEPT !.pc = "connect"]
    /\ UNCHANGED <<qvars, connrest, clientflags>>

\* client.connect() and the start_notify calls succeed
ConnectorConnectOk ==
    /\ conn.pc = "connect"
    /\ conn' = [conn EXCEPT !.pc = "watch", !.retry_count = 0]
    /\ UNCHANGED <<qvars, connrest, clientflags, scan_completed>>

\* client.connect() raises: retry_count += 1; at max_retry `break` (the
\* finally block runs), otherwise sleep(retry_delay)
ConnectorConnectFail ==
    /\ conn.pc = "connect"
    /\ IF conn.retry_count + 1 >= max_retry
          THEN /\ conn' = [conn EXCEPT !.pc = "ended", !.retry_count = @ + 1]
               /\ Release
          ELSE /\ conn' = [conn EXCEPT !.pc = "backoff", !.retry_count = @ + 1]
               /\ UNCHANGED clientflags
    /\ UNCHANGED <<qvars, connrest, scan_completed>>

\* the sleep of the except block ends: the finally block
\* (notify_client_completed, sleep) and back to the top of the loop
ConnectorBackoffDone ==
    /\ conn.pc = "backoff"
    /\ conn' = [conn EXCEPT !.pc = "begin"]
    /\ Release
    /\ UNCHANGED <<qvars, connrest, scan_completed>>

\* the connection drops: the finally block and back to the top of the loop
ConnectionLost ==
    /\ conn.pc = "watch"
    /\ conn' = [conn EXCEPT !.pc = "begin"]
    /\ Release
    /\ UNCHANGED <<qvars, connrest, scan_completed>>

(***************************************************************************)
(* The clock.                                                              *)
(***************************************************************************)
\* a task can run without waiting for the driver, an event or a timeout of
\* Quantum or more: it runs before the clock advances
Urgent ==
    \/ main.pc = "idle" /\ queue # {}
    \/ main.pc \in {"start", "retry_sleep", "returned", "raised", "cancelled"}
    \/ main.pc \in HandlerAwaits /\ main.elapsed >= request[main.req].timeout_sec
    \/ main.pc = "wait_scan" /\ (scan_completed \/ main.hs >= SCAN_STOP_WAIT_SEC)
    \/ scan_queue # <<>>
    \/ \E w \in ScanWorkers : scan_cur[w] # 0
    \/ scan.pc \in {"loop", "stop"}
    \/ scan.pc = "sleep" /\ (scanner_stopping \/ DeadlockDetected)
    \/ scan.pc = "wait_client" /\ (client_completed \/ scan.wait >= CLIENT_WAIT_SEC)
    \/ conn.pc \in {"begin", "backoff"}
    \/ conn.pc = "wait_scan" /\ scan_completed

\* Quantum seconds pass
Tick ==
    /\ ~Urgent
    /\ request' = [id \in Ids |->
                     IF request[id].status \in {"PENDING", "PROCESSING"}
                        THEN [request[id] EXCEPT
                                !.age = Later(@, (3 * request_max_age_sec) \div 2)]
                        ELSE request[id]]
    /\ main' = IF main.pc = "idle" THEN main
               ELSE [main EXCEPT
                       !.elapsed = Later(@, request[main.req].timeout_sec - 1),
                       !.hs = IF main.pc = "wait_scan"
                                 THEN Later(@, SCAN_STOP_WAIT_SEC - 1) ELSE @]
    /\ scan' = IF scan.pc = "wait_client"
                  THEN [scan EXCEPT !.wait = Later(@, CLIENT_WAIT_SEC - 1)]
                  ELSE scan
    /\ exclusive_age' = IF exclusive_age >= 0
                           THEN Later(exclusive_age, deadlock_threshold)
                           ELSE exclusive_age
    /\ UNCHANGED <<queue, scan_queue, active_requests, stats, skip_old_requests,
                   request_max_age_sec, scan_cur, consecutive_failures, enqueued,
                   exclusive, scanner_stopping, client_connecting,
                   scan_ready, scan_completed, client_completed, scanner_active,
                   conn, component_issues, apart>>

(***************************************************************************)
(* NotificationManager for one address, and the notification side of       *)
(* IPCServer.  Characteristics are numbered 1..NumChars, IPC connections   *)
(* (StreamWriters) 1..NumWriters, connector tasks 1..MaxTasks in the order *)
(* asyncio.create_task made them; 0 stands for "no entry".  A callback id  *)
(* is <<w, c>>: the default f"{client_id}_{mac}:{uuid}" of connection w,   *)
(* or with w = 0 an id the clients chose themselves and may share.         *)
(*                                                                         *)
(* nm.task[t].pc, the await _manage_device_connection is suspended at:     *)
(*   none     no such task (or it has returned and left no connection)     *)
(*   created  asyncio.create_task has been called, the task has not run    *)
(*   lock     `async with self._lock` (the lock is taken)                  *)
(*   connect  client.connect() and the start_notify calls, holding _lock   *)
(*   watch    `while client.is_connected`: asyncio.sleep(1)                *)
(*   backoff  asyncio.sleep(retry_delay) of `except (BleakError, ...)`     *)
(*   sleep    asyncio.sleep(retry_delay) of the finally block              *)
(*   ended    the task has returned, its BleakClient is still connected    *)
(***************************************************************************)
Chars == 1..NumChars
Writers == 1..NumWriters
Tasks == 1..MaxTasks
CallbackIds == (0..NumWriters) \X Chars

NoCallback == <<>>
NoSubscriptions == [present |-> FALSE, chars |-> {}]
NoTask == [pc |-> "none", connected |-> FALSE, notifying |-> {}, bound |-> 0]

\* NotificationManager.__init__
InitNm ==
    nm = [callback_map |-> [c \in Chars |-> NoCallback],
          subscriptions |-> NoSubscriptions,
          active_connections |-> 0,
          tasks |-> 0,
          lock |-> 0,
          task |-> [t \in Tasks |-> NoTask]]

\* the connector tasks that have not returned
LiveTasks(s) == {t \in Tasks : s.task[t].pc \notin {"none", "ended"}}

\* the BleakClients that are connected
LiveConnections(s) == {t \in Tasks : s.task[t].connected}

\* the number the next created task gets
CanCreate(s) == \E t \in Tasks : s.task[t] = NoTask
NewTask(s) == CHOOSE t \in Tasks :
                 /\ s.task[t] = NoTask
                 /\ \A u \in Tasks : s.task[u] = NoTask => t <= u

\* a task returns: its BleakClient is not disconnected by anything
Returned(r) == IF r.connected THEN [r EXCEPT !.pc = "ended"] ELSE NoTask

\* the connection of a BleakClient ends (client.disconnect() or the
\* peripheral drops it)
Disconnected(r) ==
    IF r.pc = "ended" THEN NoTask
    ELSE [r EXCEPT !.connected = FALSE, !.notifying = {}, !.bound = 0]

\* process_notification_request without request.unsubscribe, the lock being
\* free.  found: _get_device_func(mac) returns a device
subscribe(s, c, cb, found) ==
    LET s1 == [s EXCEPT !.callback_map[c] = cb]
    IN  IF s.active_connections # 0
           THEN IF s1.subscriptions.present
                   THEN [s1 EXCEPT !.subscriptions.chars = @ \cup {c}]
                   ELSE s1
        ELSE IF ~found
           THEN s1    \* raise ValueError
        ELSE [s1 EXCEPT !.tasks = NewTask(s),
                        !.task[NewTask(s)].pc = "created",
                        !.subscriptions = [present |-> TRUE, chars |-> {c}]]

\* the subscribe needs a task number that the model does not have
OutOfTasks(s, found) == s.active_connections = 0 /\ found /\ ~CanCreate(s)

\* _disconnect_device, called with the lock held.  The cancelled task runs
\* its finally block (which deletes _active_connections[mac]) if it is
\* inside the inner try; wait_for(shield(task), 1.0) ends before the
\* sleep of that finally block does.
disconnect_device(s) ==
    LET t == s.tasks
        cleanup == t # 0 /\ s.task[t].pc \in {"lock", "watch", "backoff"}
        s1 == IF t = 0 THEN s
              ELSE [s EXCEPT !.task[t] = Returned(@),
                             !.tasks = 0,
                             !.active_connections = IF cleanup THEN 0 ELSE @]
        a == s1.active_connections
        s2 == IF a = 0 THEN s1
              ELSE [s1 EXCEPT !.task[a] = Disconnected(@),
                              !.active_connections = 0]
    IN  [s2 EXCEPT !.subscriptions = NoSubscriptions,
                   !.callback_map = [c \in Chars |-> NoCallback]]

\* _unsubscribe, the lock being free.  ok: client.stop_notify succeeds
unsubscribe(s, c, ok) ==
    LET s1 == [s EXCEPT !.callback_map[c] = NoCallback]
        a == s.active_connections
        s2 == [s1 EXCEPT !.subscriptions.chars = @ \ {c}]
        s3 == IF a # 0 /\ s.task[a].connected /\ ok
                 THEN [s2 EXCEPT !.task[a].notifying = @ \ {c}]
                 ELSE s2
    IN  IF ~(s.subscriptions.present /\ c \in s.subscriptions.chars) THEN s1
        ELSE IF s3.subscriptions.chars = {} THEN disconnect_device(s3)
        ELSE s3

\* process_notification_request
process_notification_request(s, c, cb, unsub, found, ok) ==
    IF unsub THEN unsubscribe(s, c, ok) ELSE subscribe(s, c, cb, found)

NoCommand == [char |-> 0, cb |-> NoCallback, unsub |-> FALSE]

\* IPCServer.__init__, and the connections the clients have opened
InitIpc ==
    /\ notification_subscribers = [cb \in CallbackIds |-> {}]
    /\ connections = Writers
    /\ command = [w \in Writers |-> NoCommand]
    /\ lines = [w \in Writers |-> <<>>]
    /\ deliveries = <<>>
    /\ emissions = <<>>
    /\ unsubscribed = {}

Addrs == 1..NumAddrs

\* ScanCache.__init__: no entries, _last_cleanup = time.time()
InitCache ==
    cache = [entries |-> [a \in Addrs |-> <<>>], last_cleanup |-> 0, now |-> 0,
             added |-> [a \in Addrs |-> 0]]

\* no connection has sent a message, no request has a result
InitIpcRequests ==
    /\ client = [w \in Writers |-> [pc |-> "read", req |-> 0, count |-> 0,
                                    last |-> "None"]]
    /\ replies = [w \in Writers |-> <<>>]
    /\ owner = [id \in Ids |-> 0]
    /\ response_data = [id \in Ids |-> "None"]

\* a callback of the event loop's ready queue: the first step of a task or
\* the resumption of one
Handle(kind, id, component, ok) ==
    [kind |-> kind, id |-> id, component |-> component, ok |-> ok]

Recoveries == 1..MaxRecoveries

\* BLEWatchdog.__init__ and start(): the flag is clear, no recovery task
\* exists, and the task of _watchdog_loop waits for its first step
\* history of one round of _watchdog_loop: at its start the failure count
\* was at the threshold and no recovery in progress (due), the count was
\* below the threshold (below); every adapter it asked was up (all_up);
\* the recovery tasks the round has created (started)
NoRound == [due |-> FALSE, below |-> FALSE, all_up |-> TRUE, started |-> 0]

InitWatchdog ==
    watchdog = [recovery_in_progress |-> FALSE,
                recovery |-> [r \in Recoveries |-> "none"],
                loop |-> "ready",
                adapter |-> 0,
                ready |-> <<Handle("loop", 0, "", TRUE)>>,
                round |-> NoRound]

\* request ids: the ones IPC clients put into their messages and the ones
\* uuid.uuid4() produces (never one that exists)
MaxObjects == 3
ClientIds == {1, 2}
UuidIds == {3, 4, 5}
AllIds == ClientIds \cup UuidIds

InitIdq == idq = [requests |-> <<>>, active |-> [i \in AllIds |-> 0], queue |-> {}]

\* scanner.py module constants
MIN_SCANNER_RECREATE_INTERVAL == 180
NO_DEVICES_THRESHOLD == 60
\* the number of scanner recreations the specification follows
MaxRecreations == 3
\* an age past every threshold the scanner compares it with
LongAgo == SCAN_CACHE_TTL_SEC + Quantum

\* BLEScanner.__init__: _last_scan_time = time.time(), _last_recreate_time = 0
\* (the epoch), the counters at 0, an empty ScanCache
InitRecreation ==
    recreation = [recreate_count |-> 0, no_devices_count |-> 0,
                  last_recreate_age |-> LongAgo, last_scan_age |-> 0,
                  seen |-> FALSE, pc |-> "loop",
                  notified |-> <<>>, quiet |-> <<>>]

\* the adapters of BLE_ADAPTERS by their position
Adapters == 1..Len(BLE_ADAPTERS)

\* no run of _recover_ble_adapter yet
NoRecoveryRun ==
    [pc |-> "idle", adapter_issues |-> {}, still_problematic |-> {},
     restarted |-> FALSE, queried |-> FALSE, final_issues |-> {},
     reset_failures |-> FALSE, ended |-> "none"]

InitLast ==
    /\ InitIdq
    /\ InitRecreation
    /\ fullrec = NoRecoveryRun
    /\ sweep = [main |-> 0, scan |-> 0, seen |-> -1, levels |-> {}]

\* the components of the service in the order start() and stop() take them,
\* and the service before its start() is called
ServiceStartOrder ==
    <<"scanner", "queue_manager", "watchdog", "notification_manager", "ipc_server">>
ServiceStopOrder ==
    <<"ipc_server", "notification_manager", "watchdog", "queue_manager", "scanner">>
ServiceComponents == {ServiceStartOrder[i] : i \in DOMAIN ServiceStartOrder}

InitService ==
    service = [pc |-> "init", next |-> 1,
               running |-> [c \in ServiceComponents |-> FALSE],
               ipc_task |-> FALSE, stops |-> <<>>, start_error |-> "None"]

(***************************************************************************)
(* Initial states: the components constructed and started                  *)
(* (BLEOrchestratorService.__init__ and start).                            *)
(***************************************************************************)
InitCommon ==
    /\ request = [id \in Ids |-> NoRequest]
    /\ queue = {}
    /\ scan_queue = <<>>
    /\ active_requests = {}
    /\ stats = [total_requests |-> 0, completed_requests |-> 0,
                failed_requests |-> 0, timeout_requests |-> 0,
                skipped_requests |-> 0, processing_requests |-> 0,
                scan_requests |-> 0, scan_completed |-> 0, scan_failed |-> 0]
    /\ skip_old_requests = TRUE
    /\ request_max_age_sec = REQUEST_MAX_AGE_SEC
    /\ main = IdleMain
    /\ scan_cur = [w \in ScanWorkers |-> 0]
    /\ consecutive_failures = 0
    /\ scanner_stopping = FALSE
    /\ client_connecting = FALSE
    /\ scan_ready = TRUE
    /\ scan_completed = FALSE
    /\ client_completed = FALSE
    /\ scanner_active = TRUE
    /\ exclusive_age = -1
    /\ conn = [pc |-> "none", retry_count |-> 0]
    /\ component_issues = {}
    /\ enqueued = <<>>
    /\ InitNm
    /\ InitIpc
    /\ InitWatchdog
    /\ InitIpcRequests
    /\ InitCache
    /\ config_written = <<>>
    /\ InitService
    /\ InitLast

\* service.py constructs the handler and the notification manager without
\* a scanner: `self._exclusive_control_enabled and self._scanner` is false
Init ==
    /\ InitCommon
    /\ exclusive = FALSE
    /\ scan = [pc |-> "off", wait |-> 0]

\* the handler and the notification manager constructed with the scanner
InitExclusive ==
    /\ InitCommon
    /\ exclusive \in BOOLEAN
    /\ scan = [pc |-> "loop", wait |-> 0]

\* the requests the clients send (_handle_write_request takes the steps of
\* _handle_read_request)
Shapes == {<<"READ", HIGH, DEFAULT_REQUEST_TIMEOUT_SEC>>,
           <<"READ", NORMAL, LongTimeout>>,
           <<"READ", LOW, DEFAULT_REQUEST_TIMEOUT_SEC>>,
           <<"SCAN", NORMAL, DEFAULT_REQUEST_TIMEOUT_SEC>>}

\* a request reaches RequestQueueManager.enqueue_request
Submit(id, shape) ==
    /\ enqueue_request(id, shape[1], shape[2], shape[3])
    /\ UNCHANGED xvars

HandlerStep ==
    \/ \E found \in BOOLEAN : HandlerStart(found)
    \/ ConnectOk
    \/ ConnectFail
    \/ OpOk
    \/ OpFail
    \/ DisconnectOk
    \/ DisconnectFail
    \/ RetrySleepDone
    \/ DeadlineCancel
    \/ WorkerFinish

ScanLoopStep ==
    \/ ScanLoopTop
    \/ \E need \in BOOLEAN : \E outcome \in RecreateOutcomes : ScanTick(need, outcome)

\* the daemon as service.py wires it
Next ==
    \/ \E id \in Ids : \E shape \in Shapes : Submit(id, shape)
    \/ \E due \in BOOLEAN : WorkerDequeue(due)
    \/ HandlerStep
    \/ \E w \in ScanWorkers : ScanDequeue(w)
    \/ \E w \in ScanWorkers : \E found \in BOOLEAN : ScanFinish(w, found)
    \/ reset_failure_count
    \/ Tick

Spec == Init /\ [][Next]_vars

ExclusiveStep ==
    \/ HandlerScanStopped
    \/ ScanStopped
    \/ ScanClientDone
    \/ ScanRestartOk
    \/ \E outcome \in RecreateOutcomes : ScanRestartFail(outcome)
    \/ ConnectorStart
    \/ ConnectorBegin
    \/ ConnectorScanStopped
    \/ ConnectorConnectOk
    \/ ConnectorConnectFail
    \/ ConnectorBackoffDone
    \/ ConnectionLost

\* READ requests of one id, a read handler wired to the scanner, the scan
\* loop and a notification connector
NextExclusive ==
    \/ \E timeout \in Timeouts : Submit(1, <<"READ", NORMAL, timeout>>)
    \/ WorkerDequeue(FALSE)
    \/ HandlerStep
    \/ ScanLoopStep
    \/ ExclusiveStep
    \/ Tick

SpecExclusive == InitExclusive /\ [][NextExclusive]_vars

(***************************************************************************)
(* The connector tasks, the subscribe commands and the delivery of         *)
(* notifications.                                                          *)
(***************************************************************************)
\* the first element of a set of connections in the order a loop over it
\* visits them
First(S) == CHOOSE w \in S : \A v \in S : w <= v

\* _manage_device_connection runs up to `async with self._lock`
TaskRun(t) ==
    /\ \/ nm.task[t].pc = "created"
       \/ nm.task[t].pc = "lock" /\ nm.lock = 0
    /\ nm' = IF nm.lock = 0
                THEN [nm EXCEPT !.lock = t, !.task[t].pc = "connect"]
                ELSE [nm EXCEPT !.task[t].pc = "lock"]
    /\ UNCHANGED <<ipcvars, dvars, notnm>>

\* client.connect() succeeds: the connection is recorded and start_notify
\* is called for every characteristic of _subscriptions[mac]; the lambdas
\* all read the loop variable char_uuid, which keeps the value of the last
\* pass (last)
TaskConnectOk(t, last) ==
    /\ nm.task[t].pc = "connect"
    /\ LET chars == nm.subscriptions.chars
       IN  /\ IF chars = {} THEN last = 0 ELSE last \in chars
           /\ nm' = [nm EXCEPT !.lock = 0,
                               !.active_connections = t,
                               !.task[t] = [pc |-> "watch", connected |-> TRUE,
                                            notifying |-> chars, bound |-> last]]
    /\ UNCHANGED <<ipcvars, dvars, notnm>>

\* client.connect() raises: retry_count += 1, then either `break` (giveup:
\* retry_count >= max_retry; the finally block runs on the way out) or the
\* sleep of the except block
TaskConnectFail(t, giveup) ==
    /\ nm.task[t].pc = "connect"
    /\ nm' = IF giveup
                THEN [nm EXCEPT !.lock = 0, !.active_connections = 0,
                                !.task[t] = NoTask]
                ELSE [nm EXCEPT !.lock = 0, !.task[t].pc = "backoff"]
    /\ UNCHANGED <<ipcvars, dvars, notnm>>

\* the sleep of the except block ends: the finally block deletes
\* _active_connections[mac] and sleeps
TaskBackoffDone(t) ==
    /\ nm.task[t].pc = "backoff"
    /\ nm' = [nm EXCEPT !.active_connections = 0, !.task[t].pc = "sleep"]
    /\ UNCHANGED <<ipcvars, dvars, notnm>>

\* `while client.is_connected` ends: the finally block
TaskConnectionLost(t) ==
    /\ nm.task[t].pc = "watch"
    /\ nm' = [nm EXCEPT !.active_connections = 0,
                        !.task[t] = [Disconnected(@) EXCEPT !.pc = "sleep"]]
    /\ UNCHANGED <<ipcvars, dvars, notnm>>

\* the sleep of the finally block ends: the top of the loop again
TaskSleepDone(t) ==
    /\ nm.task[t].pc = "sleep"
    /\ nm' = [nm EXCEPT !.task[t].pc = "lock"]
    /\ UNCHANGED <<ipcvars, dvars, notnm>>

\* the peripheral drops a connection whose task has returned
PeripheralDrop(t) ==
    /\ nm.task[t].pc = "ended"
    /\ nm' = [nm EXCEPT !.task[t] = NoTask]
    /\ UNCHANGED <<ipcvars, dvars, notnm>>

\* the clients that have unsubscribed from a characteristic and not
\* subscribed to it again
Unsubscribed(w, c, unsub) ==
    IF unsub THEN unsubscribed \cup {<<w, c>>} ELSE unsubscribed \ {<<w, c>>}

\* _process_command, "subscribe_notifications": the subscriber set of the
\* callback id is updated, then the notification manager is called; the
\* call waits if the manager's lock is taken.  shared: the request carries
\* the callback_id the clients agreed on
SubscribeCommand(w, c, shared, unsub, found, ok) ==
    LET cb == <<IF shared THEN 0 ELSE w, c>>
    IN  /\ w \in connections
        /\ command[w] = NoCommand
        /\ notification_subscribers' =
              [notification_subscribers EXCEPT
                  ![cb] = IF unsub THEN @ \ {w} ELSE @ \cup {w}]
        /\ IF nm.lock = 0
              THEN /\ unsub \/ ~OutOfTasks(nm, found)
                   /\ nm' = process_notification_request(nm, c, cb, unsub, found, ok)
                   /\ unsubscribed' = Unsubscribed(w, c, unsub)
                   /\ UNCHANGED command
              ELSE /\ command' = [command EXCEPT ![w] =
                                    [char |-> c, cb |-> cb, unsub |-> unsub]]
                   /\ unsubscribed' = unsubscribed \ {<<w, c>>}
                   /\ UNCHANGED nm
        /\ UNCHANGED <<connections, lines, deliveries, emissions, notnm>>

\* the lock is released: the waiting process_notification_request goes on
LockAcquired(w, found, ok) ==
    /\ command[w] # NoCommand
    /\ nm.lock = 0
    /\ command[w].unsub \/ ~OutOfTasks(nm, found)
    /\ nm' = process_notification_request(nm, command[w].char, command[w].cb,
                                          command[w].unsub, found, ok)
    /\ unsubscribed' = Unsubscribed(w, command[w].char, command[w].unsub)
    /\ command' = [command EXCEPT ![w] = NoCommand]
    /\ UNCHANGED <<notification_subscribers, connections, lines, deliveries,
                   emissions, notnm>>

\* _handle_client: readline returns b"" and the finally block runs
ClientClosed(w) ==
    /\ w \in connections
    /\ command[w] = NoCommand
    /\ client[w].pc = "read"
    /\ connections' = connections \ {w}
    /\ notification_subscribers' =
          [cb \in CallbackIds |-> notification_subscribers[cb] \ {w}]
    /\ UNCHANGED <<nm, command, dvars, notnm>>

\* the driver calls the lambda given to start_notify for characteristic c
\* of the connection of task t: asyncio.create_task(_notification_handler(
\* mac, char_uuid, data)) with the value char_uuid has by now
DriverEmit(t, c) ==
    /\ nm.task[t].connected
    /\ c \in nm.task[t].notifying
    /\ Len(emissions) < MaxEmit
    /\ emissions' = Append(emissions,
                      [char |-> c,
                       stale |-> {w \in Writers : <<w, c>> \in unsubscribed}])
    /\ deliveries' = Append(deliveries,
                      [char |-> nm.task[t].bound, data |-> Len(emissions) + 1,
                       pc |-> "new", cb |-> NoCallback, done |-> {}, size |-> 0])
    /\ UNCHANGED <<nm, ipcvars, lines, unsubscribed, notnm>>

Remove(seq, i) == SubSeq(seq, 1, i - 1) \o SubSeq(seq, i + 1, Len(seq))

\* writer.write(notification_json) for the next connection of the loop of
\* send_notification, then `await writer.drain()`
WriteNext(i, cb, w, size) ==
    LET d == deliveries[i]
        done == d.done \cup {w}
    IN  /\ lines' = [lines EXCEPT ![w] =
                       Append(@, [callback_id |-> cb, characteristic_uuid |-> d.char,
                                  value |-> d.data])]
        /\ deliveries' = [deliveries EXCEPT ![i] =
                            [d EXCEPT !.pc = "drain", !.cb = cb, !.done = done,
                                      !.size = size]]

\* a task of _notification_handler runs (the tasks start in the order they
\* were created): the callback id of the key, send_notification up to its
\* first drain
DeliveryStart(i) ==
    /\ i \in DOMAIN deliveries
    /\ deliveries[i].pc = "new"
    /\ \A j \in 1..(i - 1) : deliveries[j].pc # "new"
    /\ LET cb == IF deliveries[i].char = 0 THEN NoCallback
                 ELSE nm.callback_map[deliveries[i].char]
       IN  IF cb = NoCallback \/ notification_subscribers[cb] = {}
              THEN /\ deliveries' = Remove(deliveries, i)
                   /\ UNCHANGED lines
              ELSE WriteNext(i, cb, First(notification_subscribers[cb]),
                             Cardinality(notification_subscribers[cb]))
    /\ UNCHANGED <<nm, ipcvars, emissions, unsubscribed, notnm>>

\* drain returns: the loop over the subscriber set goes on (RuntimeError if
\* the set has changed size), and after the last connection the task ends
DeliveryResume(i) ==
    /\ i \in DOMAIN deliveries
    /\ deliveries[i].pc = "drain"
    /\ LET d == deliveries[i]
           subscribers == notification_subscribers[d.cb]
       IN  IF Cardinality(subscribers) # d.size \/ subscribers \ d.done = {}
              THEN /\ deliveries' = Remove(deliveries, i)
                   /\ UNCHANGED lines
              ELSE WriteNext(i, d.cb, First(subscribers \ d.done), d.size)
    /\ UNCHANGED <<nm, ipcvars, emissions, unsubscribed, notnm>>

ConnectorTaskStep ==
    \E t \in Tasks :
        \/ TaskRun(t)
        \/ \E last \in 0..NumChars : TaskConnectOk(t, last)
        \/ \E giveup \in BOOLEAN : TaskConnectFail(t, giveup)
        \/ TaskBackoffDone(t)
        \/ TaskConnectionLost(t)
        \/ TaskSleepDone(t)
        \/ PeripheralDrop(t)

\* BLEOrchestratorService._enqueue_request hands a NotificationRequest to
\* process_notification_request, which goes on once it has the lock
NotificationRequest(c, cb, unsub, found, ok) ==
    /\ nm.lock = 0
    /\ unsub \/ ~OutOfTasks(nm, found)
    /\ nm' = process_notification_request(nm, c, cb, unsub, found, ok)
    /\ UNCHANGED <<ipcvars, dvars, notnm>>

\* the notification manager and its connector tasks
NextNotify ==
    \/ ConnectorTaskStep
    \/ \E c \in Chars, w \in 0..1, unsub, found, ok \in BOOLEAN :
            NotificationRequest(c, <<w, c>>, unsub, found, ok)

SpecNotify == Init /\ [][NextNotify]_vars

\* the clients subscribe while the address has no connector task or its
\* connection is recorded, with a callback id they share, and unsubscribe
\* from what they have subscribed to
InTime(w, c, unsub) ==
    IF unsub THEN w \in notification_subscribers[<<0, c>>]
             ELSE LiveTasks(nm) = {} \/ nm.active_connections # 0

\* the clients subscribe to one characteristic of a connection that stays,
\* and the notifications of the connection are delivered to them
NextDelivery ==
    \/ \E t \in Tasks : TaskRun(t)
    \/ \E t \in Tasks : TaskConnectOk(t, 1)
    \/ \E w \in Writers, unsub \in BOOLEAN :
            InTime(w, 1, unsub) /\ SubscribeCommand(w, 1, TRUE, unsub, TRUE, TRUE)
    \/ \E w \in Writers : LockAcquired(w, TRUE, TRUE)
    \/ \E w \in Writers : ClientClosed(w)
    \/ \E t \in Tasks : DriverEmit(t, 1)
    \/ \E i \in 1..MaxEmit : DeliveryStart(i)
    \/ \E i \in 1..MaxEmit : DeliveryResume(i)

SpecDelivery == Init /\ [][NextDelivery]_vars

\* one client subscribes to the characteristics of a connection that
\* drops and is made again, and unsubscribes
NextUnsubscribe ==
    \/ \E t \in Tasks :
          \/ TaskRun(t)
          \/ \E last \in Chars : TaskConnectOk(t, last)
          \/ TaskConnectionLost(t)
          \/ TaskSleepDone(t)
    \/ \E c \in Chars, unsub, ok \in BOOLEAN :
            InTime(1, c, unsub) /\ SubscribeCommand(1, c, TRUE, unsub, TRUE, ok)
    \/ \E ok \in BOOLEAN : LockAcquired(1, TRUE, ok)
    \/ \E t \in Tasks, c \in Chars : DriverEmit(t, c)
    \/ DeliveryStart(1)
    \/ DeliveryResume(1)

SpecUnsubscribe == Init /\ [][NextUnsubscribe]_vars

(***************************************************************************)
(* The watchdog (watchdog.py).  asyncio runs the callbacks of its ready     *)
(* queue one at a time in the order they were added; a task made by         *)
(* create_task joins the end of that queue, and a callback runs until its   *)
(* next await that suspends.                                                *)
(***************************************************************************)
notwd == <<request, main, mainrest, clientflags, exclusive, scan_ready,
           scan_completed, scanner_active, scan, conn, nvars, ipcreq,
           response_data, later>>

\* the recovery tasks (_recover_ble_adapter or _reset_adapters_only) that
\* have run their first statement and not yet their finally block
Running(w) == {r \in Recoveries : w.recovery[r] \in {"running", "finishing"}}
FreeRecovery(w) == {r \in Recoveries : w.recovery[r] \in {"none", "done"}}

\* if not self._recovery_in_progress: asyncio.create_task(<recovery>())
\* the same two lines in notify_component_issue (both branches),
\* _watchdog_loop and _check_scanner_health
StartUnlessInProgress(w) ==
    IF w.recovery_in_progress
       THEN w
       ELSE LET r == First(FreeRecovery(w)) IN
            [w EXCEPT !.recovery[r] = "created",
                      !.ready = Append(@, Handle("recovery", r, "", TRUE))]

CanStart(w) == w.recovery_in_progress \/ FreeRecovery(w) # {}

\* the components that report to the watchdog: the scanner through
\* BLEOrchestratorService._notify_watchdog, the handler only if it was given
\* a notify function
Components ==
    IF handler_notify_watchdog_func THEN {"scanner", "bleakclient_failure"}
                                    ELSE {"scanner"}

\* _notify_watchdog: asyncio.create_task(_async_notify())
NotifyTaskCreated(component) ==
    /\ Len(watchdog.ready) < MaxReady
    /\ watchdog' = [watchdog EXCEPT
                        !.ready = Append(@, Handle("notify", 0, component, TRUE))]
    /\ UNCHANGED <<component_issues, consecutive_failures, notwd>>

\* _async_notify runs notify_component_issue up to its end; what the task
\* awaits afterwards (wait_for_recovery_completion) changes nothing here
RunNotify ==
    /\ watchdog.ready # <<>>
    /\ Head(watchdog.ready).kind = "notify"
    /\ LET w == [watchdog EXCEPT !.ready = Tail(@)] IN
           /\ CanStart(w)
           /\ watchdog' = StartUnlessInProgress(w)
    /\ component_issues' = component_issues \cup {Head(watchdog.ready).component}
    /\ UNCHANGED <<consecutive_failures, notwd>>

\* the handler counts a failed request (handler.py: _consecutive_failures += 1)
FailureCounted ==
    /\ consecutive_failures < CONSECUTIVE_FAILURES_THRESHOLD
    /\ consecutive_failures' = consecutive_failures + 1
    /\ UNCHANGED <<watchdog, component_issues, notwd>>

\* asyncio.sleep(WATCHDOG_CHECK_INTERVAL_SEC) of _watchdog_loop is over
SleepOver ==
    /\ watchdog.loop = "sleep"
    /\ Len(watchdog.ready) < MaxReady
    /\ watchdog' = [watchdog EXCEPT
                        !.loop = "ready",
                        !.ready = Append(@, Handle("loop", 0, "", TRUE))]
    /\ UNCHANGED <<component_issues, consecutive_failures, notwd>>

\* one round of _watchdog_loop up to the first _check_adapter_status of
\* _check_scanner_health, which waits for a subprocess
RunLoop ==
    /\ watchdog.ready # <<>>
    /\ Head(watchdog.ready).kind = "loop"
    /\ LET at_threshold == consecutive_failures >= CONSECUTIVE_FAILURES_THRESHOLD
           starts == at_threshold /\ ~watchdog.recovery_in_progress
           w == [watchdog EXCEPT !.ready = Tail(@), !.loop = "status",
                                 !.adapter = 1,
                                 !.round = [due |-> starts,
                                            below |-> ~at_threshold,
                                            all_up |-> TRUE,
                                            started |-> IF starts THEN 1 ELSE 0]] IN
           IF at_threshold
              THEN CanStart(w) /\ watchdog' = StartUnlessInProgress(w)
              ELSE watchdog' = w
    /\ UNCHANGED <<component_issues, consecutive_failures, notwd>>

\* the subprocess of _check_adapter_status has ended: the adapter is
\* "UP RUNNING" (up) or anything else
AdapterStatus(up) ==
    /\ watchdog.loop = "status"
    /\ watchdog' = [watchdog EXCEPT
                        !.loop = "ready",
                        !.ready = Append(@, Handle("health", 0, "", up))]
    /\ UNCHANGED <<component_issues, consecutive_failures, notwd>>

\* _check_scanner_health goes on with the status of one adapter: it starts
\* a recovery and returns, or looks at the next adapter; after the last one
\* _watchdog_loop sleeps
RunHealth ==
    /\ watchdog.ready # <<>>
    /\ Head(watchdog.ready).kind = "health"
    /\ LET up == Head(watchdog.ready).ok
           w == [watchdog EXCEPT !.ready = Tail(@),
                                 !.round.all_up = @ /\ up] IN
           IF ~up /\ ~w.recovery_in_progress
              THEN /\ CanStart(w)
                   /\ watchdog' = [StartUnlessInProgress(w) EXCEPT
                                       !.loop = "sleep", !.adapter = 0,
                                       !.round.started = @ + 1]
              ELSE IF w.adapter < Len(BLE_ADAPTERS)
                      THEN watchdog' = [w EXCEPT !.loop = "status",
                                                 !.adapter = @ + 1]
                      ELSE watchdog' = [w EXCEPT !.loop = "sleep",
                                                 !.adapter = 0]
    /\ UNCHANGED <<component_issues, consecutive_failures, notwd>>

\* the first step of _recover_ble_adapter or _reset_adapters_only:
\* self._recovery_in_progress = True, then it waits for its first subprocess
RunRecovery ==
    /\ watchdog.ready # <<>>
    /\ Head(watchdog.ready).kind = "recovery"
    /\ watchdog' = [watchdog EXCEPT
                        !.ready = Tail(@),
                        !.recovery_in_progress = TRUE,
                        !.recovery[Head(watchdog.ready).id] = "running"]
    /\ UNCHANGED <<component_issues, consecutive_failures, notwd>>

\* the last subprocess or sleep a recovery waits for has ended; recovered
\* says whether the procedure will reset the failure counter
RecoveryWorkDone(r, recovered) ==
    /\ watchdog.recovery[r] = "running"
    /\ watchdog' = [watchdog EXCEPT
                        !.recovery[r] = "finishing",
                        !.ready = Append(@, Handle("finish", r, "", recovered))]
    /\ UNCHANGED <<component_issues, consecutive_failures, notwd>>

\* the end of a recovery: _reset_failures_func() if it recovered, then the
\* finally block: self._recovery_in_progress = False
RunFinish ==
    /\ watchdog.ready # <<>>
    /\ Head(watchdog.ready).kind = "finish"
    /\ watchdog' = [watchdog EXCEPT
                        !.ready = Tail(@),
                        !.recovery_in_progress = FALSE,
                        !.recovery[Head(watchdog.ready).id] = "done"]
    /\ consecutive_failures' =
           IF Head(watchdog.ready).ok THEN 0 ELSE consecutive_failures
    /\ UNCHANGED <<component_issues, notwd>>

NextWatchdog ==
    \/ \E component \in Components : NotifyTaskCreated(component)
    \/ RunNotify
    \/ FailureCounted
    \/ SleepOver
    \/ RunLoop
    \/ \E up \in BOOLEAN : AdapterStatus(up)
    \/ RunHealth
    \/ RunRecovery
    \/ \E r \in Recoveries, recovered \in BOOLEAN : RecoveryWorkDone(r, recovered)
    \/ RunFinish

SpecWatchdog == Init /\ [][NextWatchdog]_vars

(***************************************************************************)
(* The request side of the IPC server (ipc_server.py): _handle_client      *)
(* reads one line at a time and answers it with one line.                  *)
(***************************************************************************)
\* lines that are no valid command: not JSON, a command the server does not
\* know (among them get_request_status), a command without a required
\* parameter, a line that makes the processing raise (JSON that is no
\* object: request.get; a timeout that is no number: float(timeout))
ProtocolErrors == {"invalid_json", "unknown_command", "get_request_status",
                   "missing_parameter", "exception"}

\* the commands that put a request into the queue, and the request each makes
Commands == {"read_sensor", "send_command", "get_scan_data"}
RequestKind(cmd) == CASE cmd = "read_sensor" -> "READ"
                      [] cmd = "send_command" -> "WRITE"
                      [] cmd = "get_scan_data" -> "SCAN"

\* a response line; kind is no part of the line: it names the message the
\* line answers
Reply(status, error, id, data) ==
    [kind |-> "None", status |-> status, error |-> error, request_id |-> id,
     data |-> data]

\* the messages received so far
Received == LET n(w) == client[w].count + IF client[w].pc = "read" THEN 0 ELSE 1
            IN  n(1) + n(2)

\* the response to a line that is no valid command
ErrorReply(kind) ==
    CASE kind = "invalid_json" -> Reply("error", "Invalid JSON", 0, "None")
      [] kind \in {"unknown_command", "get_request_status"} ->
            Reply("error", "Unknown command", 0, "None")
      [] kind = "missing_parameter" ->
            Reply("error", "Missing required parameters", 0, "None")
      [] OTHER -> Reply("error", "str(e)", 0, "None")

\* the response when wait_until_done has returned
DoneReply(id) ==
    IF request[id].status = "COMPLETED"
       THEN Reply("success", "None", id, response_data[id])
       ELSE Reply("error",
                  IF request[id].error_message = "None" THEN "Request failed"
                  ELSE request[id].error_message, id, "None")

\* _handle_client has written the response and awaits the next line
Answered(w, kind, reply) ==
    /\ client' = [client EXCEPT ![w] = [pc |-> "read", req |-> 0,
                                        count |-> @.count + 1, last |-> "None"]]
    /\ replies' = [replies EXCEPT ![w] = Append(@, [reply EXCEPT !.kind = kind])]

\* a line that is no valid command, if the exception left the read loop:
\* no response, and the finally block closes the connection
ProtocolErrorCloses(w, kind) ==
    /\ w \in connections
    /\ client[w].pc = "read"
    /\ Received < MaxMessages
    /\ client' = [client EXCEPT ![w].count = @ + 1]
    /\ connections' = connections \ {w}
    /\ notification_subscribers' =
          [cb \in CallbackIds |-> notification_subscribers[cb] \ {w}]
    /\ UNCHANGED <<replies, owner, response_data, qvars, hvars, watchdog, later, nm,
                   command, dvars>>

\* connection w sends a line that is no valid command
ProtocolError(w, kind) ==
    /\ w \in connections
    /\ client[w].pc = "read"
    /\ Received < MaxMessages
    /\ Answered(w, kind, ErrorReply(kind))
    /\ UNCHANGED <<owner, response_data, qvars, hvars, nvars, watchdog, later>>

\* connection w sends read_sensor, send_command or get_scan_data with a new
\* request id: the request is enqueued; read_sensor is answered at once,
\* the other two wait for the request (wait_until_done with the timeout of
\* the request, 10.0 for get_scan_data)
RequestCommand(w, id, cmd) ==
    /\ w \in connections
    /\ client[w].pc = "read"
    /\ Received < MaxMessages
    /\ id = Len(enqueued) + 1
    /\ enqueue_request(id, RequestKind(cmd), NORMAL, DEFAULT_REQUEST_TIMEOUT_SEC)
    /\ owner' = [owner EXCEPT ![id] = w]
    /\ IF cmd = "read_sensor"
          THEN Answered(w, cmd, Reply("success", "None", id, "queued"))
          ELSE /\ client' = [client EXCEPT ![w].pc = "wait_done", ![w].req = id,
                                           ![w].last = cmd]
               /\ UNCHANGED replies
    /\ UNCHANGED <<response_data, hvars, nvars, watchdog, later>>

\* mark_as_done has set the event: wait_until_done returns
WaitDone(w) ==
    /\ client[w].pc = "wait_done"
    /\ request[client[w].req].done > 0
    /\ Answered(w, client[w].last, DoneReply(client[w].req))
    /\ UNCHANGED <<owner, response_data, qvars, hvars, nvars, watchdog, later>>

\* wait_until_done raises TimeoutError: the time is over, or no worker
\* holds the request any more and nothing will set the event
WaitTimeout(w) ==
    /\ client[w].pc = "wait_done"
    /\ LET id == client[w].req IN
          /\ request[id].done = 0
          /\ \/ request[id].age >= request[id].timeout_sec
             \/ /\ request[id].status \in TerminalStatus
                /\ main.req # id
                /\ \A s \in ScanWorkers : scan_cur[s] # id
          /\ Answered(w, client[w].last,
                      Reply("error", "Request timed out", id, "None"))
    /\ UNCHANGED <<owner, response_data, qvars, hvars, nvars, watchdog, later>>

\* the clients of the IPC server and the request path behind it
NextIpc ==
    \/ \E w \in Writers : \E kind \in ProtocolErrors : ProtocolError(w, kind)
    \/ \E w \in Writers : \E id \in Ids : \E cmd \in Commands :
            RequestCommand(w, id, cmd)
    \/ \E w \in Writers : WaitDone(w)
    \/ \E w \in Writers : WaitTimeout(w)
    \/ \E w \in Writers : ClientClosed(w)
    \/ \E due \in BOOLEAN : WorkerDequeue(due)
    \/ HandlerStep
    \/ \E w \in ScanWorkers : ScanDequeue(w)
    \/ \E w \in ScanWorkers : \E found \in BOOLEAN : ScanFinish(w, found)
    \/ Tick

SpecIpc == Init /\ [][NextIpc]_vars

(***************************************************************************)
(* ScanCache (scanner.py).  A result is [n, timestamp]: the n-th result    *)
(* added for its address, and time.time() when it was made.                *)
(***************************************************************************)
NoResult == [n |-> 0, timestamp |-> 0]
Last(seq) == seq[Len(seq)]

\* a lookup that reads the oldest result of the deque and does not look at
\* its age
get_oldest_result(c, address) ==
    IF c.entries[address] = <<>> THEN NoResult ELSE Head(c.entries[address])

\* ScanCache.get_latest_result reading the last result of the deque
get_latest_result(c, address) ==
    IF c.entries[address] = <<>> THEN NoResult
    ELSE IF c.now - Last(c.entries[address]).timestamp > SCAN_CACHE_TTL_SEC
         THEN NoResult
         ELSE Last(c.entries[address])

\* deque(maxlen=10).append
DequeAppend(seq, x) ==
    IF Len(seq) < DEQUE_MAXLEN THEN Append(seq, x) ELSE Append(Tail(seq), x)

\* ScanCache._cleanup_expired_entries: once the interval has passed, the
\* addresses whose last result is expired (or that have none) are deleted
cleanup_expired_entries(c) ==
    IF c.now - c.last_cleanup < CLEANUP_INTERVAL_SEC THEN c
    ELSE [c EXCEPT
            !.last_cleanup = c.now,
            !.entries = [a \in Addrs |->
                IF c.entries[a] = <<>> THEN <<>>
                ELSE IF c.now - Last(c.entries[a]).timestamp > SCAN_CACHE_TTL_SEC
                     THEN <<>> ELSE c.entries[a]]]

notcache == <<qvars, hvars, nvars, watchdog, ipcreq, response_data,
              config_written, service, newest>>
notservice == <<qvars, hvars, nvars, watchdog, ipcreq, response_data,
                cache, config_written, newest>>
old == <<qvars, hvars, nvars, watchdog, ipcreq, response_data,
         cache, config_written, service>>

\* ScanCache.add_result for an advertisement of address
add_result(address) ==
    /\ cache.added[1] + cache.added[2] < MaxResults
    /\ cache' = cleanup_expired_entries(
                    [cache EXCEPT
                        !.added[address] = @ + 1,
                        !.entries[address] =
                            DequeAppend(@, [n |-> cache.added[address] + 1,
                                            timestamp |-> cache.now])])
    /\ UNCHANGED notcache

\* time.time() advances
ClockAdvance ==
    /\ cache.now < MaxNow
    /\ cache' = [cache EXCEPT !.now = @ + CacheQuantum]
    /\ UNCHANGED notcache

NextCache ==
    \/ \E address \in Addrs : add_result(address)
    \/ ClockAdvance

SpecCache == Init /\ [][NextCache]_vars

(***************************************************************************)
(* The configuration of the queue manager, changed and read by its         *)
(* methods and by the IPC commands update_queue_config / get_queue_config. *)
(* A max_age_sec of 0 stands for None (not given).                         *)
(***************************************************************************)
MaxAges == {0, Quantum, REQUEST_MAX_AGE_SEC}

\* RequestQueueManager.get_skip_old_requests_config
get_skip_old_requests_config ==
    [skip_old_requests |-> skip_old_requests, max_age_sec |-> request_max_age_sec]

\* what a read must return after the write of skip and max_age
WrittenConfig(skip, max_age) ==
    [skip_old_requests |-> skip,
     max_age_sec |-> IF max_age = 0 THEN request_max_age_sec ELSE max_age]

\* RequestQueueManager.update_skip_old_requests_config
update_skip_old_requests_config(skip, max_age) ==
    /\ skip_old_requests' = skip
    /\ request_max_age_sec' = IF max_age = 0 THEN request_max_age_sec ELSE max_age
    /\ config_written' = WrittenConfig(skip, max_age)
    /\ UNCHANGED <<request, queue, scan_queue, active_requests, stats, main,
                   scan_cur, consecutive_failures, enqueued, hvars, nvars,
                   watchdog, ipcreq, response_data, cache, service, newest>>

\* _process_command for update_queue_config or get_queue_config: no branch
\* of the command chain names them, the last else answers
QueueConfigCommand(w, cmd, skip, max_age) ==
    /\ w \in connections
    /\ client[w].pc = "read"
    /\ Received < MaxMessages
    /\ Answered(w, cmd, ErrorReply("unknown_command"))
    /\ config_written' = IF cmd = "update_queue_config" THEN WrittenConfig(skip, max_age)
                                                        ELSE config_written
    /\ UNCHANGED <<owner, response_data, qvars, hvars, nvars, watchdog, cache,
                   service, newest>>

NextConfig ==
    \/ \E skip \in BOOLEAN : \E max_age \in MaxAges :
            update_skip_old_requests_config(skip, max_age)
    \/ \E w \in Writers : \E skip \in BOOLEAN : \E max_age \in MaxAges :
            \E cmd \in {"update_queue_config", "get_queue_config"} :
                QueueConfigCommand(w, cmd, skip, max_age)

SpecConfig == Init /\ [][NextConfig]_vars

(***************************************************************************)
(* BLEOrchestratorService.start and stop.  running[c] is what keeps        *)
(* component c alive: is_running of the scanner, the worker tasks of the   *)
(* queue manager, the loop task of the watchdog, _is_running of the        *)
(* notification manager, the listening socket of the IPC server.           *)
(* ipc_task is IPCServer._task, which IPCServer.stop tests.                *)
(***************************************************************************)
\* the ways start() of a component ends: the scanner's driver may refuse to
\* start; the IPC server may fail to bind its socket, or to chmod it after
\* the server listens; the other three only create tasks or set a flag
StartOutcomes(c) ==
    IF c = "scanner" THEN {"ok", "raises"}
    ELSE IF c = "ipc_server" THEN {"ok", "bind_raises", "chmod_raises"}
    ELSE {"ok"}

\* the ways stop() of a component ends: each returns at once when its own
\* test says it is not running; a task that does not end in time is
\* cancelled; an error of the scanner's driver is logged; wait_closed of the
\* IPC server is awaited outside any try
StopOutcomes(c) ==
    IF c = "ipc_server"
    THEN IF service.ipc_task THEN {"ok", "timeout", "raises"} ELSE {"returns"}
    ELSE IF c = "notification_manager" THEN {"ok"}
    ELSE IF ~service.running[c] THEN {"returns"}
    ELSE IF c = "scanner" THEN {"ok", "timeout", "driver_error"}
    ELSE {"ok", "timeout"}

\* BLEOrchestratorService.start is called
ServiceStart ==
    /\ service.pc = "init"
    /\ service' = [service EXCEPT !.pc = "starting"]
    /\ UNCHANGED notservice

\* one "await self.<component>.start()" of BLEOrchestratorService.start
ComponentStart(outcome) ==
    /\ service.pc = "starting"
    /\ LET c == ServiceStartOrder[service.next] IN
          /\ outcome \in StartOutcomes(c)
          /\ service' =
                [service EXCEPT
                   !.running[c] = outcome \in {"ok", "chmod_raises"},
                   !.ipc_task = IF c = "ipc_server" THEN outcome = "ok" ELSE @,
                   !.next = IF outcome = "ok" /\ @ < Len(ServiceStartOrder)
                            THEN @ + 1 ELSE 1,
                   !.start_error = IF outcome = "ok" THEN @ ELSE c,
                   !.pc = IF outcome # "ok" THEN "stopping"
                          ELSE IF service.next = Len(ServiceStartOrder)
                               THEN "running" ELSE "starting"]
    /\ UNCHANGED notservice

\* BLEOrchestratorService.stop is called on the running service
ServiceStop ==
    /\ service.pc = "running"
    /\ service' = [service EXCEPT !.pc = "stopping", !.next = 1]
    /\ UNCHANGED notservice

\* one "try: await self.<component>.stop() except Exception" of
\* BLEOrchestratorService.stop
ComponentStop(outcome) ==
    /\ service.pc = "stopping"
    /\ LET c == ServiceStopOrder[service.next] IN
          /\ outcome \in StopOutcomes(c)
          /\ service' =
                [service EXCEPT
                   !.running[c] = IF outcome = "returns" THEN @ ELSE FALSE,
                   !.ipc_task = IF c = "ipc_server" THEN outcome = "raises" ELSE @,
                   !.stops = Append(@, [component |-> c, outcome |-> outcome]),
                   !.next = IF @ < Len(ServiceStopOrder) THEN @ + 1 ELSE 1,
                   !.pc = IF service.next < Len(ServiceStopOrder) THEN "stopping"
                          ELSE IF service.start_error # "None" THEN "raised"
                          ELSE "stopped"]
    /\ UNCHANGED notservice

NextService ==
    \/ ServiceStart
    \/ \E outcome \in {"ok", "raises", "bind_raises", "chmod_raises"} :
            ComponentStart(outcome)
    \/ ServiceStop
    \/ \E outcome \in {"ok", "timeout", "driver_error", "raises", "returns"} :
            ComponentStop(outcome)

SpecService == Init /\ [][NextService]_vars

(***************************************************************************)
(* The priority scenario: one coroutine of a test driver awaits            *)
(* enqueue_request for a NORMAL, a LOW and a HIGH read, one after the      *)
(* other, while the main worker waits in _queue.get(); the radio is a      *)
(* stub, whose calls return (or raise) before the clock advances.          *)
(***************************************************************************)
\* the three enqueue_request calls: put() of the unbounded PriorityQueue
\* never suspends, so the worker, woken by the first put, runs only after
\* the third
EnqueueThree(a, b, c) ==
    /\ main.pc = "idle"
    /\ queue = {}
    /\ \A id \in {a, b, c} : request[id].status = "NONE"
    /\ LET new(prio) == [kind |-> "READ", priority |-> prio,
                         timeout_sec |-> DEFAULT_REQUEST_TIMEOUT_SEC,
                         status |-> "PENDING", error_message |-> "None",
                         age |-> 0, done |-> 0]
       IN request' = [request EXCEPT ![a] = new(NORMAL), ![b] = new(LOW),
                                     ![c] = new(HIGH)]
    /\ queue' = {<<NORMAL, a>>, <<LOW, b>>, <<HIGH, c>>}
    /\ stats' = [stats EXCEPT !.total_requests = @ + 3]
    /\ active_requests' = active_requests \cup {a, b, c}
    /\ enqueued' = enqueued \o <<a, b, c>>
    /\ UNCHANGED <<scan_queue, skip_old_requests, request_max_age_sec, main,
                   scan_cur, consecutive_failures, xvars>>

\* the handler with the stubbed radio: no call outlasts the deadline
StubbedHandlerStep ==
    \/ \E found \in BOOLEAN : HandlerStart(found)
    \/ ConnectOk
    \/ ConnectFail
    \/ OpOk
    \/ OpFail
    \/ DisconnectOk
    \/ DisconnectFail
    \/ RetrySleepDone
    \/ WorkerFinish

NextBurst ==
    \/ \E a, b, c \in Ids : a # b /\ a # c /\ b # c /\ EnqueueThree(a, b, c)
    \/ \E due \in BOOLEAN : WorkerDequeue(due)
    \/ StubbedHandlerStep

SpecBurst == Init /\ [][NextBurst]_vars

(***************************************************************************)
(* The statistics of the queue manager: the request path with stop().      *)
(***************************************************************************)
\* the requests of this specification: a read that may outlast the maximum
\* age of the ones behind it, and a scan lookup
StatsShapes == {<<"READ", NORMAL, LongTimeout>>,
                <<"SCAN", NORMAL, DEFAULT_REQUEST_TIMEOUT_SEC>>}

\* RequestQueueManager.stop(): _stop_event.set(); the scan workers end at
\* the top of their loop; the main worker ends there too if it waits for
\* the queue, and is cancelled if it still awaits the handler after 5 s:
\* CancelledError leaves the status PROCESSING, the inner finally block
\* lowers processing_requests and calls task_done, the loop breaks
StopCancelled ==
    /\ main.pc \in HandlerAwaits \cup {"idle"}
    /\ main' = [IdleMain EXCEPT !.pc = "stopped"]
    /\ IF main.pc \in HandlerRadio THEN Release ELSE UNCHANGED clientflags
    /\ stats' = IF main.pc = "idle" THEN stats ELSE CountFinal(stats, "PROCESSING")
    /\ UNCHANGED <<request, queue, scan_queue, active_requests,
                   skip_old_requests, request_max_age_sec, scan_cur,
                   consecutive_failures, enqueued, otherx, scan_completed>>

NextStats ==
    \/ \E id \in Ids : \E shape \in StatsShapes : Submit(id, shape)
    \/ \E due \in BOOLEAN : WorkerDequeue(due)
    \/ HandlerStep
    \/ \E w \in ScanWorkers : main.pc # "stopped" /\ ScanDequeue(w)
    \/ \E w \in ScanWorkers : \E found \in BOOLEAN : ScanFinish(w, found)
    \/ main.pc # "stopped" /\ Tick
    \/ StopCancelled

SpecStats == Init /\ [][NextStats]_vars

(***************************************************************************)
(* The request ids.  read_sensor and send_command build the request with   *)
(* request.get("request_id", str(uuid.uuid4())) and enqueue_request puts   *)
(* it into the heap and into _active_requests under that id.               *)
(***************************************************************************)
\* str(uuid.uuid4()): an id no request has
uuid4 == CHOOSE i \in UuidIds : \A k \in DOMAIN idq.requests : idq.requests[k].request_id # i

\* the heap holds a tuple with the priority and the id of the new one: the
\* comparison of the two tuples reaches the request objects, which have no
\* order, and heappush raises TypeError if it compares these two
SameTupleQueued(id, prio) ==
    \E k \in idq.queue : /\ idq.requests[k].request_id = id
                         /\ idq.requests[k].priority = prio

\* _process_command (read_sensor / send_command) and enqueue_request;
\* supplied = 0: the message carries no request_id
IdEnqueue(supplied, prio, compared) ==
    /\ Len(idq.requests) < MaxObjects
    /\ LET id == IF supplied = 0 THEN uuid4 ELSE supplied
           k == Len(idq.requests) + 1
       IN IF SameTupleQueued(id, prio) /\ compared
             THEN UNCHANGED idq
             ELSE idq' = [requests |-> Append(idq.requests,
                                        [request_id |-> id, priority |-> prio,
                                         status |-> "PENDING"]),
                          active |-> [idq.active EXCEPT ![id] = k],
                          queue |-> idq.queue \cup {k}]
    /\ UNCHANGED <<old, recreation, fullrec, sweep>>

\* _worker_loop takes a least tuple out of the heap
IdDequeue(k) ==
    /\ k \in idq.queue
    /\ \A j \in DOMAIN idq.requests : idq.requests[j].status # "PROCESSING"
    /\ \A j \in idq.queue :
          ~TupleLess(<<idq.requests[j].priority, idq.requests[j].request_id>>,
                     <<idq.requests[k].priority, idq.requests[k].request_id>>)
    /\ idq' = [idq EXCEPT !.requests[k].status = "PROCESSING",
                          !.queue = @ \ {k}]
    /\ UNCHANGED <<old, recreation, fullrec, sweep>>

\* _worker_loop after the handler: the final status and
\* _active_requests.pop(request_id, None)
IdFinish(k, status) ==
    /\ k \in DOMAIN idq.requests
    /\ idq.requests[k].status = "PROCESSING"
    /\ idq' = [idq EXCEPT !.requests[k].status = status,
                          !.active[idq.requests[k].request_id] = 0]
    /\ UNCHANGED <<old, recreation, fullrec, sweep>>

NextIds ==
    \/ \E supplied \in {0} \cup ClientIds : \E prio \in {HIGH, NORMAL, LOW} :
            \E compared \in BOOLEAN : IdEnqueue(supplied, prio, compared)
    \/ \E k \in 1..MaxObjects : IdDequeue(k)
    \/ \E k \in 1..MaxObjects : \E status \in TerminalStatus : IdFinish(k, status)

SpecIds == Init /\ [][NextIds]_vars

(***************************************************************************)
(* The scanner's health check and its recreate procedure: the part of      *)
(* _scan_loop after the sleep, for a scanner nobody asks to stop.  One     *)
(* pass of the loop takes Quantum seconds here.                            *)
(***************************************************************************)
notrecreation == <<qvars, exclusive, scanner_stopping, client_connecting,
                   scan_ready, scan_completed, client_completed, exclusive_age,
                   scan, conn, nvars, watchdog, ipcreq, response_data, cache,
                   config_written, service, idq, fullrec, sweep>>

\* _detection_callback: _last_scan_time = time.time(); cache.add_result
DetectionCallback ==
    /\ recreation.pc = "loop"
    /\ scanner_active
    /\ recreation' = [recreation EXCEPT !.last_scan_age = 0, !.seen = TRUE]
    /\ UNCHANGED <<notrecreation, scanner_active, component_issues>>

\* ScanCache.get_all_devices is not empty: a result no older than the TTL
ActiveDevices(r) == r.seen /\ r.last_scan_age <= SCAN_CACHE_TTL_SEC

\* _check_recreation_needed: the record after the call
CheckedRecreation(r) ==
    IF ActiveDevices(r)
       THEN [r EXCEPT !.no_devices_count = 0, !.recreate_count = 0]
       ELSE [r EXCEPT !.no_devices_count = @ + 1]

\* _check_recreation_needed: its verdict, on the record after the call
RecreationNeeded(r) ==
    \/ ~ActiveDevices(r) /\ r.no_devices_count >= NO_DEVICES_THRESHOLD
    \/ r.last_scan_age > NO_DEVICES_THRESHOLD
    \/ r.last_scan_age > 300

\* _should_skip_recreation (_recovery_in_progress is False whenever the
\* scan loop, the only caller, gets there)
should_skip_recreation(r) ==
    /\ r.last_recreate_age < MIN_SCANNER_RECREATE_INTERVAL
    /\ ~(r.last_scan_age > 300)

\* _update_recreation_stats
update_recreation_stats(r) ==
    [r EXCEPT !.recreate_count = @ + 1, !.last_recreate_age = 0]

\* _notify_watchdog_if_needed reaches _notify_watchdog_func for this count
NotifyNeeded(count) == TRUE

\* _notify_watchdog_if_needed: the record after the call
notify_watchdog_if_needed(r) ==
    IF NotifyNeeded(r.recreate_count)
       THEN [r EXCEPT !.notified = Append(@, r.recreate_count),
                      !.recreate_count = 0]
       ELSE [r EXCEPT !.quiet = Append(@, r.recreate_count)]

\* _create_new_scanner after scanner.start() returned
create_new_scanner(r) ==
    [r EXCEPT !.last_scan_age = 0, !.no_devices_count = 0]

\* one pass of _scan_loop after asyncio.sleep: _check_recreation_needed and,
\* if it says so, _recreate_scanner, whose scanner.start() returns (started)
\* or raises; an exception ends the loop and notifies the watchdog
ScanPass(started) ==
    /\ recreation.pc = "loop"
    /\ Len(recreation.notified) + Len(recreation.quiet) < MaxRecreations
    /\ LET slept == [recreation EXCEPT
                        !.last_scan_age = Later(@, SCAN_CACHE_TTL_SEC),
                        !.last_recreate_age = Later(@, SCAN_CACHE_TTL_SEC)]
           checked == CheckedRecreation(slept)
           told == notify_watchdog_if_needed(update_recreation_stats(checked))
       IN  IF ~RecreationNeeded(checked) \/ should_skip_recreation(checked)
              THEN /\ recreation' = checked
                   /\ UNCHANGED <<scanner_active, component_issues>>
              ELSE /\ recreation' = IF started THEN create_new_scanner(told)
                                               ELSE [told EXCEPT !.pc = "dead"]
                   /\ scanner_active' = started
                   /\ IF NotifyNeeded(checked.recreate_count + 1) \/ ~started
                         THEN notify_watchdog
                         ELSE UNCHANGED component_issues
    /\ UNCHANGED notrecreation

NextRecreate ==
    \/ DetectionCallback
    \/ \E started \in BOOLEAN : ScanPass(started)

SpecRecreate == Init /\ [][NextRecreate]_vars

(***************************************************************************)
(* One run of BLEWatchdog._recover_ble_adapter, cut at its awaits.         *)
(* fullrec.pc:                                                             *)
(*   idle     no run yet                                                   *)
(*   status   the first _check_adapter_status of every adapter             *)
(*   reset    _reset_single_adapter of the adapters with issues, the sleep *)
(*            of 3 s and the second _check_adapter_status                  *)
(*   restart  _run_shell_command(BLUETOOTH_RESTART_COMMAND)                *)
(*   final    the sleep of 10 s and the last _check_adapter_status         *)
(*   done     the finally block has run                                    *)
(***************************************************************************)
notfullrec == <<request, main, mainrest, clientflags, exclusive, scan_ready,
                scan_completed, scanner_active, scan, conn, nvars, ipcreq,
                response_data, cache, config_written, service, idq,
                recreation, sweep, component_issues>>

\* the finally block of _recover_ble_adapter: _recovery_in_progress = False
\* (no callback is registered; the event is set and cleared at once)
RecoveryFinally == [watchdog EXCEPT !.recovery_in_progress = FALSE]

\* `if not adapter_issues or not still_problematic` after a failed restart
ResetDespiteRestartFailure(run) ==
    run.adapter_issues = {} \/ run.still_problematic = {}

\* the first statement of _recover_ble_adapter
RecoverBegin ==
    /\ fullrec.pc \in {"idle", "done"}
    /\ watchdog' = [watchdog EXCEPT !.recovery_in_progress = TRUE]
    /\ fullrec' = [NoRecoveryRun EXCEPT !.pc = "status"]
    /\ UNCHANGED <<consecutive_failures, notfullrec>>

\* step 1: the adapters whose status is not "UP RUNNING" (issues)
RecoverStatus(issues) ==
    /\ fullrec.pc = "status"
    /\ fullrec' = [fullrec EXCEPT !.adapter_issues = issues,
                                  !.pc = IF issues = {} THEN "restart" ELSE "reset"]
    /\ UNCHANGED <<watchdog, consecutive_failures, notfullrec>>

\* step 2: the resets, and the adapters still not up afterwards (still)
RecoverReset(still) ==
    /\ fullrec.pc = "reset"
    /\ still \subseteq fullrec.adapter_issues
    /\ fullrec' = [fullrec EXCEPT !.still_problematic = still, !.pc = "restart"]
    /\ UNCHANGED <<watchdog, consecutive_failures, notfullrec>>

\* step 3: the restart command returns True (success) or False; after
\* False the else branch and the finally block follow without an await
RecoverRestart(success) ==
    /\ fullrec.pc = "restart"
    /\ IF success
          THEN /\ fullrec' = [fullrec EXCEPT !.restarted = TRUE, !.pc = "final"]
               /\ UNCHANGED <<watchdog, consecutive_failures>>
          ELSE /\ fullrec' = [fullrec EXCEPT
                                 !.reset_failures = ResetDespiteRestartFailure(fullrec),
                                 !.ended = "returned", !.pc = "done"]
               /\ consecutive_failures' =
                      IF ResetDespiteRestartFailure(fullrec) THEN 0
                                                             ELSE consecutive_failures
               /\ watchdog' = RecoveryFinally
    /\ UNCHANGED notfullrec

\* step 4: the last query (final: the adapters not up), the reset of the
\* failure counter if there are none, and the finally block
RecoverFinal(final) ==
    /\ fullrec.pc = "final"
    /\ fullrec' = [fullrec EXCEPT !.queried = TRUE, !.final_issues = final,
                                  !.reset_failures = (final = {}),
                                  !.ended = "returned", !.pc = "done"]
    /\ consecutive_failures' = IF final = {} THEN 0 ELSE consecutive_failures
    /\ watchdog' = RecoveryFinally
    /\ UNCHANGED notfullrec

\* an await of the run raises (the task is cancelled, or a command raises
\* past its own handler): the except clause if any, then the finally block
RecoverRaised ==
    /\ fullrec.pc \in {"status", "reset", "restart", "final"}
    /\ fullrec' = [fullrec EXCEPT !.ended = "raised", !.pc = "done"]
    /\ watchdog' = RecoveryFinally
    /\ UNCHANGED <<consecutive_failures, notfullrec>>

NextRecovery ==
    \/ FailureCounted
    \/ RecoverBegin
    \/ \E issues \in SUBSET Adapters : RecoverStatus(issues)
    \/ \E still \in SUBSET Adapters : RecoverReset(still)
    \/ \E success \in BOOLEAN : RecoverRestart(success)
    \/ \E final \in SUBSET Adapters : RecoverFinal(final)
    \/ RecoverRaised

SpecRecovery == Init /\ [][NextRecovery]_vars

(***************************************************************************)
(* The queue-size check at the end of _cleanup_old_requests, over queues   *)
(* given by their sizes.                                                   *)
(***************************************************************************)
\* the number of pending requests the specification follows
MaxPending == 51

\* the levels of the records the check logs for a total of pending requests
\* (logger.warning, logger.error)
QueueSizeLevels(total) ==
    IF total > 20 THEN {"WARNING"}
    ELSE IF total > 50 THEN {"ERROR"}
    ELSE {}

\* enqueue_request: put() into _scan_queue (lookup) or into _queue
SweepEnqueue(lookup) ==
    /\ sweep.main + sweep.scan < MaxPending
    /\ sweep' = IF lookup THEN [sweep EXCEPT !.scan = @ + 1]
                        ELSE [sweep EXCEPT !.main = @ + 1]
    /\ UNCHANGED <<old, idq, recreation, fullrec>>

\* a worker takes a request out of its queue
SweepDequeue(lookup) ==
    /\ IF lookup THEN sweep.scan > 0 ELSE sweep.main > 0
    /\ sweep' = IF lookup THEN [sweep EXCEPT !.scan = @ - 1]
                        ELSE [sweep EXCEPT !.main = @ - 1]
    /\ UNCHANGED <<old, idq, recreation, fullrec>>

\* _cleanup_old_requests once the cleanup interval has passed
QueueSizeCheck ==
    /\ sweep' = [sweep EXCEPT !.seen = sweep.main + sweep.scan,
                              !.levels = QueueSizeLevels(sweep.main + sweep.scan)]
    /\ UNCHANGED <<old, idq, recreation, fullrec>>

NextSweep ==
    \/ \E lookup \in BOOLEAN : SweepEnqueue(lookup)
    \/ \E lookup \in BOOLEAN : SweepDequeue(lookup)
    \/ QueueSizeCheck

SpecSweep == Init /\ [][NextSweep]_vars

(***************************************************************************)
(* Properties of the request path (specification Spec).                    *)
(***************************************************************************)
\* the main worker or a scan worker is between dequeue and the end of its
\* loop body with request id
InWorker(id) == main.req = id \/ \E w \in ScanWorkers : scan_cur[w] = id

\* request id has left the queues and no worker will touch it again
Finished(id) == request[id].status \in TerminalStatus /\ ~InWorker(id)

\* this step is the main worker passing request id to the handler
DispatchOf(id) == main.pc = "idle" /\ main'.pc = "start" /\ main'.req = id

\* request id of the main queue has been passed to the handler
WasDispatched(id) ==
    /\ request[id].kind \in MainKinds
    /\ \/ request[id].status \in {"PROCESSING", "COMPLETED", "TIMEOUT"}
       \/ request[id].status = "FAILED" /\ request[id].error_message # "skipped"

\* position of request id in the order of the enqueue_request calls
EnqueuedAt(id) == CHOOSE i \in 1..Len(enqueued) : enqueued[i] = id

\* C2: every request that has reached the end of its processing (on the
\* success, error, deadline and age-skip paths alike) has had exactly one
\* mark_as_done, so that a caller in wait_until_done is released
C2_DoneExactlyOnce ==
    \A id \in Ids : Finished(id) => request[id].done = 1

\* C4 (as stated): when a request is passed to the handler, every request
\* of higher priority that had been enqueued by then has already been
\* passed to the handler
C4_HigherDispatchedFirst ==
    [][\A l \in Ids : DispatchOf(l) =>
          \A h \in Ids :
             ( /\ request[h].kind \in MainKinds
               /\ request[h].status # "NONE"
               /\ request[h].priority < request[l].priority )
             => WasDispatched(h)]_vars

\* C4 (amended): the worker takes requests out of the queue by priority:
\* whenever a request leaves the main queue (passed to the handler or
\* skipped for its age), no request of higher priority is waiting in it
C4_DequeueByPriority ==
    [][\A e \in queue \ queue' : \A f \in queue : e[1] <= f[1]]_vars

\* a request of higher priority, enqueued later, is being processed while
\* the request of lower priority enqueued before it still waits
C4_Witness ==
    \E h \in Ids : \E l \in Ids :
        /\ <<request[l].priority, l>> \in queue
        /\ request[h].kind \in MainKinds
        /\ request[h].status = "PROCESSING"
        /\ request[h].priority < request[l].priority
        /\ EnqueuedAt(l) < EnqueuedAt(h)

\* C5: requests of equal priority are passed to the handler in the order
\* of their enqueue_request calls: when one is passed to the handler, none
\* of the same priority that was enqueued before it still waits
C5_FifoWithinPriority ==
    [][\A b \in Ids : DispatchOf(b) =>
          \A a \in Ids :
             ( /\ <<request[a].priority, a>> \in queue
               /\ request[a].priority = request[b].priority )
             => EnqueuedAt(b) < EnqueuedAt(a)]_vars

\* C6: with skip_old_requests enabled, a request that is too old when it is
\* dequeued is not passed to the handler and ends with status SKIPPED
C6_OldRequestSkipped ==
    [][\A id \in Ids :
          ( /\ skip_old_requests
            /\ request[id].status = "PENDING"
            /\ request'[id].status # "PENDING"
            /\ request[id].age > request_max_age_sec )
          => /\ ~InWorker(id)'
             /\ request'[id].status = "SKIPPED"]_vars

StatusRank(st) ==
    IF st = "NONE" THEN 0
    ELSE IF st = "PENDING" THEN 1
    ELSE IF st = "PROCESSING" THEN 2
    ELSE 3

\* C8: the status of a request never moves backward, and a terminal status
\* is never replaced by a different status
C8_StatusMonotone ==
    [][\A id \in Ids :
          /\ StatusRank(request'[id].status) >= StatusRank(request[id].status)
          /\ request[id].status \in TerminalStatus =>
                request'[id].status = request[id].status]_vars

\* this step is handle_request raising / returning
HandlerRaises == main.pc # "raised" /\ main'.pc = "raised"
HandlerReturns ==
    \/ main.pc # "returned" /\ main'.pc = "returned"
    \/ \E w \in ScanWorkers : scan_cur[w] # 0 /\ scan_cur'[w] = 0

\* C9: consecutive_failures goes up by one when handle_request raises, to 0
\* when handle_request returns or reset_failure_count is called, and does
\* not change otherwise
C9_FailureCounter ==
    [][/\ HandlerRaises => consecutive_failures' = consecutive_failures + 1
       /\ HandlerReturns => consecutive_failures' = 0
       /\ (~HandlerRaises /\ ~HandlerReturns) =>
             consecutive_failures' \in {consecutive_failures, 0}]_vars

\* two dispatches in a row have failed and a third request has been
\* enqueued
C9_Witness ==
    /\ consecutive_failures = 2
    /\ \E id \in Ids : request[id].status = "PENDING"

(***************************************************************************)
(* Properties of the exclusive control between the scanner and the client  *)
(* operations (specification SpecExclusive).                               *)
(***************************************************************************)
\* the fairness the event loop gives: a task that can run does run, time
\* passes, and the calls of the scan loop into the driver return; nothing
\* is assumed of the peripheral (connect, notification link)
FairExclusive ==
    /\ SpecExclusive
    /\ WF_vars(Tick)
    /\ WF_vars(WorkerDequeue(FALSE))
    /\ WF_vars(HandlerStep)
    /\ WF_vars(HandlerScanStopped)
    /\ WF_vars(ScanLoopStep)
    /\ WF_vars(ScanStopped)
    /\ WF_vars(ScanClientDone)
    /\ WF_vars(ScanRestartOk \/ \E outcome \in RecreateOutcomes : ScanRestartFail(outcome))
    /\ WF_vars(ConnectorBegin)
    /\ WF_vars(ConnectorScanStopped)
    /\ WF_vars(ConnectorBackoffDone)

\* a connect, read or write of the handler, or a connect/subscribe of the
\* notification connector, is in progress
RadioOperation == main.pc \in {"connect", "op"} \/ conn.pc = "connect"

\* C1: the scanner is never scanning while a radio operation of the handler
\* or of a notification connector is in progress
C1_NoScanDuringRadioOperation == ~(scanner_active /\ RadioOperation)

\* the handler / the connector is between its request_scanner_stop and its
\* notify_client_completed
HandlerHolds == exclusive /\ main.pc \in HandlerAwaits
ConnectorHolds == exclusive /\ conn.pc \in {"wait_scan", "connect", "watch", "backoff"}

\* C3: while one client operation is between its request_scanner_stop and
\* its notify_client_completed, no other client operation is
C3_OneHolder == ~(HandlerHolds /\ ConnectorHolds)

\* the exclusion was requested more than deadlock_threshold ago and has
\* not been released
HeldTooLong == exclusive_age > deadlock_threshold

\* C10: an exclusion held for longer than deadlock_threshold is eventually
\* cleared: both flags are reset
C10_ForcedRelease == HeldTooLong ~> (~scanner_stopping /\ ~client_connecting)

(***************************************************************************)
(* Properties of the retry path and the watchdog notification.             *)
(***************************************************************************)
\* the handler raises out of the retry loop: the last attempt has failed
RetriesExhausted ==
    /\ main.pc \in {"connect", "op", "disconnect"}
    /\ main'.pc = "raised"

\* the part of C11 about the request and the failure counter: when the
\* retry loop gives up, it is the attempt number BLE_RETRY_COUNT that has
\* failed, the request is FAILED and consecutive_failures is at least 1
RetriesExhaustedFails ==
    [][RetriesExhausted =>
          /\ main.retry + 1 = BLE_RETRY_COUNT
          /\ request'[main.req].status = "FAILED"
          /\ consecutive_failures' >= 1]_vars

\* C11: when every attempt of a READ or WRITE has failed with a driver
\* error (BLE_RETRY_COUNT = 2), the request ends FAILED after exactly two
\* attempts, consecutive_failures is at least 1, and the watchdog has been
\* notified with the component kind "bleakclient_failure"
C11_ExhaustedRetriesNotifyWatchdog ==
    [][RetriesExhausted =>
          /\ main.retry + 1 = BLE_RETRY_COUNT
          /\ request'[main.req].status = "FAILED"
          /\ consecutive_failures' >= 1
          /\ "bleakclient_failure" \in component_issues']_vars

(***************************************************************************)
(* Properties of the notification manager and of the notification          *)
(* delivery (specification SpecNotify).                                    *)
(***************************************************************************)
\* a step creates a connector task
TaskCreated == \E t \in Tasks : nm.task[t].pc = "none" /\ nm'.task[t].pc = "created"

\* C12: the address has at most one connector task that has not returned
\* and at most one connected BleakClient, and a subscribe creates a
\* connector task only if the address has none (start_notify is called
\* once for each element of the set _subscriptions[mac] on a new
\* connection: notifying is a set)
C12_OneConnectorPerAddress ==
    [][/\ Cardinality(LiveTasks(nm')) <= 1
       /\ Cardinality(LiveConnections(nm')) <= 1
       /\ TaskCreated => LiveTasks(nm) = {}]_vars

\* subscribe to c, then unsubscribe from c
SubscribeThenUnsubscribe(s, c) ==
    unsubscribe(subscribe(s, c, <<0, c>>, TRUE), c, TRUE)

\* an unsubscribe has removed the last subscription of the address
LastUnsubscribed == nm.subscriptions.present /\ ~nm'.subscriptions.present

\* C13: a subscribe to a characteristic followed by the unsubscribe from
\* it leaves _subscriptions as it was before the subscribe, and when an
\* unsubscribe leaves the address without subscriptions no connection to
\* the address stays open
C13_SubscribeThenUnsubscribe ==
    [][/\ \A c \in Chars :
             (nm.lock = 0 /\ c \notin nm.subscriptions.chars /\ ~OutOfTasks(nm, TRUE))
                => SubscribeThenUnsubscribe(nm, c).subscriptions = nm.subscriptions
       /\ LastUnsubscribed => LiveConnections(nm') = {}]_vars

\* C14: on every IPC connection the notification lines of one callback id
\* appear in the order the driver emitted the notifications
C14_DriverOrder ==
    \A w \in Writers : \A i, j \in DOMAIN lines[w] :
        (i < j /\ lines[w][i].callback_id = lines[w][j].callback_id)
            => lines[w][i].value < lines[w][j].value

\* a line is written to connection w
Written(w) == Len(lines'[w]) > Len(lines[w])

\* the notification the last line of connection w is about
LastEmission(w) == emissions[lines'[w][Len(lines'[w])].value]

\* C15: once the unsubscribe of a connection from a characteristic has been
\* processed, a notification the driver emits on that characteristic
\* afterwards does not produce a line on the connection (as long as the
\* connection has not subscribed to the characteristic again)
C15_NoLineAfterUnsubscribe ==
    [][\A w \in Writers :
          Written(w) => ~(/\ w \in LastEmission(w).stale
                          /\ <<w, LastEmission(w).char>> \in unsubscribed)]_vars


(***************************************************************************)
(* Properties of the watchdog (specification SpecWatchdog).                *)
(***************************************************************************)
\* C16: at most one recovery procedure (full recovery or lightweight adapter
\* reset) is running at any time, whatever the order of the periodic checks
\* and the notify_component_issue calls.
C16_OneRecoveryAtATime == Cardinality(Running(watchdog)) <= 1

(***************************************************************************)
(* Properties of the IPC server (specification SpecIpc).                   *)
(***************************************************************************)
\* the response lines written to connection w that name request id
RepliesFor(w, id) ==
    {i \in 1..Len(replies[w]) : replies[w][i].request_id = id}

\* C17: for every request an IPC client submits, if the request ends FAILED
\* or TIMEOUT (skipped requests end FAILED), the client can observe that
\* outcome: the reply to its command reports an error for the request, or
\* a status query (get_request_status) is answered with the outcome.
C17_OutcomeReachesRequester ==
    \A id \in Ids :
        LET w == owner[id] IN
        (/\ w # 0
         /\ w \in connections
         /\ client[w].req # id
         /\ request[id].status \in {"FAILED", "TIMEOUT"})
        => \/ \E i \in RepliesFor(w, id) : replies[w][i].status = "error"
           \/ ErrorReply("get_request_status").status # "error"

\* connection w is closed in this step
Closes(w) == w \in connections /\ w \notin connections'

\* C18: when an IPC connection closes, it is removed from every notification
\* subscriber set and every request of that connection that is still pending
\* fails with "connection closed".
C18_CloseFailsPendingRequests ==
    [][\A w \in Writers :
          Closes(w) =>
             /\ \A cb \in CallbackIds : w \notin notification_subscribers'[cb]
             /\ \A id \in Ids :
                    (owner[id] = w /\ request[id].status \in {"PENDING", "PROCESSING"})
                    => /\ request'[id].status = "FAILED"
                       /\ request'[id].error_message = "connection closed"]_vars

\* connection w has read a line and is done with it in the same step
\* without enqueueing a request: the line was no valid command
ProtocolErrorStep(w) ==
    /\ client[w].pc = "read"
    /\ client'[w].count = client[w].count + 1
    /\ enqueued' = enqueued

\* C19: a protocol error (malformed JSON, missing required field, unknown
\* command, exception while processing a command) is answered with exactly
\* one error reply for that message, and the connection stays open and
\* waits for the next message.
C19_ProtocolErrorOneReply ==
    [][\A w \in Writers :
          ProtocolErrorStep(w) =>
             /\ Len(replies'[w]) = Len(replies[w]) + 1
             /\ SubSeq(replies'[w], 1, Len(replies[w])) = replies[w]
             /\ replies'[w][Len(replies'[w])].status = "error"
             /\ replies'[w][Len(replies'[w])].kind \in ProtocolErrors
             /\ w \in connections'
             /\ client'[w].pc = "read"]_vars

\* a connection got the reply to a protocol error and after it the reply
\* to a command
C19_Witness ==
    \E w \in Writers :
        /\ Len(replies[w]) = 2
        /\ replies[w][1].kind \in ProtocolErrors
        /\ replies[w][1].status = "error"
        /\ replies[w][2].kind \in Commands
        /\ w \in connections

\* a scan worker ends its call of the handler in this step
ScanLookupEnds(w) == scan_cur[w] # 0 /\ scan_cur'[w] = 0

\* C20: a SCAN_LOOKUP always ends COMPLETED with a result object, never
\* FAILED; for an address with no valid cache record the result carries the
\* error text and the address, and the reply to get_scan_data has status
\* success and carries that result.
C20_ScanLookupNotFoundCompletes ==
    [][/\ \A w \in ScanWorkers :
             ScanLookupEnds(w) =>
                /\ request'[scan_cur[w]].status = "COMPLETED"
                /\ response_data'[scan_cur[w]] \in
                      {ScanResponse(TRUE), ScanResponse(FALSE)}
       /\ \A id \in Ids :
             request'[id].kind = "SCAN" =>
                request'[id].status \notin {"FAILED", "TIMEOUT"}
       /\ \A id \in Ids :
             response_data'[id] = ScanResponse(FALSE) =>
                /\ request'[id].status = "COMPLETED"
                /\ \A w \in Writers : \A i \in 1..Len(replies'[w]) :
                       replies'[w][i].request_id = id =>
                          /\ replies'[w][i].status = "success"
                          /\ replies'[w][i].data = ScanResponse(FALSE)]_vars

\* a client got the reply to get_scan_data for an address without a valid
\* record
C20_Witness ==
    \E id \in Ids : \E w \in Writers : \E i \in 1..Len(replies[w]) :
        /\ response_data[id] = ScanResponse(FALSE)
        /\ replies[w][i].request_id = id
        /\ replies[w][i].kind = "get_scan_data"

C22_GetReturnsLatestUnexpired ==
    \A address \in Addrs :
        LET r == get_latest_result(cache, address) IN
        r # NoResult =>
           /\ r.n = cache.added[address]
           /\ cache.now - r.timestamp <= SCAN_CACHE_TTL_SEC

\* get returns the second result of an address at the very end of its TTL,
\* and returns nothing for the other address, whose result has expired
C22_Witness ==
    \E a, b \in Addrs :
        /\ get_latest_result(cache, a).n = 2
        /\ cache.now - get_latest_result(cache, a).timestamp = SCAN_CACHE_TTL_SEC
        /\ cache.added[b] > 0
        /\ get_latest_result(cache, b) = NoResult

(***************************************************************************)
(* Properties of the queue configuration (specification SpecConfig).       *)
(***************************************************************************)
\* C23: update_queue_config followed by get_queue_config returns exactly the
\* last-written values of skip_old_requests and max_age, through the queue
\* manager's methods and through the IPC commands: once something has been
\* written the manager's getter equals it, and every reply to the IPC
\* command get_queue_config is a success carrying it.
C23_ConfigRoundTrip ==
    [][config_written' # <<>> =>
          /\ get_skip_old_requests_config' = config_written'
          /\ \A w \in Writers :
                (/\ Len(replies'[w]) = Len(replies[w]) + 1
                 /\ Last(replies'[w]).kind = "get_queue_config")
                => /\ Last(replies'[w]).status = "success"
                   /\ Last(replies'[w]).data = config_written']_vars

(***************************************************************************)
(* Properties of service start and stop (specification SpecService).       *)
(***************************************************************************)
\* C24: if a component's start() fails during the start of the service,
\* then once start() has re-raised the error, stop() has been attempted on
\* every component in the order IPC server, notification manager, watchdog,
\* queue manager, scanner, also after a stop that raised, and no component
\* is left running.
C24_FailedStartStopsEverything ==
    service.pc = "raised" =>
        /\ service.start_error # "None"
        /\ [i \in DOMAIN service.stops |-> service.stops[i].component]
               = ServiceStopOrder
        /\ \A c \in ServiceComponents : ~service.running[c]

(***************************************************************************)
(* Properties of the exclusion between scanning and client operations      *)
(* (specification SpecExclusive).                                          *)
(***************************************************************************)
\* C25: every READ/WRITE dispatch that called request_scanner_stop calls
\* notify_client_completed before it ends, whatever the exit (success,
\* driver error, retries exhausted, cancellation by the deadline at any
\* await, the wait for scan_stopped included): in the step that ends the
\* dispatch scanner_stopping and client_connecting become false and
\* client_completed is set.
C25_DispatchReleasesScanner ==
    [][(/\ exclusive
        /\ main.pc \in HandlerAwaits
        /\ main.pc' \in {"returned", "raised", "cancelled"})
       => (/\ ~scanner_stopping'
           /\ ~client_connecting'
           /\ client_completed')]_vars

\* C26: after a client operation has called notify_client_completed the scan
\* loop waiting for it is released and eventually scans again (driver
\* started, scanner active); the loop does not end and the scanner does not
\* remain stopped after the client is done.
C26_ScanRestartsAfterClient ==
    (exclusive /\ scan.pc = "wait_client" /\ client_completed)
        ~> (scanner_active /\ scan.pc # "dead")

\* C27: a notification connector calls notify_client_completed once it has
\* connected and subscribed, before it starts to watch the connection: in the
\* step that takes it from the connect to the watch loop the exclusion flags
\* become false and client_completed is set.
C27_ConnectorReleasesBeforeWatch ==
    [][(exclusive /\ conn.pc = "connect" /\ conn.pc' = "watch")
       => (/\ ~scanner_stopping'
           /\ ~client_connecting'
           /\ client_completed')]_vars

\* C28: whenever no client operation is between its request_scanner_stop and
\* its notify_client_completed and the scan loop is outside the block in
\* which it stops, waits for the client and restarts, scan_completed and
\* client_completed are clear and both exclusion flags are false: no signal
\* is left over from an earlier round, a timeout or a forced reset.
C28_NoLeftoverSignals ==
    (/\ exclusive
     /\ ~HandlerHolds
     /\ ~ConnectorHolds
     /\ scan.pc \notin {"stop", "wait_client", "restart"})
    => (/\ ~scan_completed
        /\ ~client_completed
        /\ ~scanner_stopping
        /\ ~client_connecting)

C30_ConnectorGetsPastWait ==
    (exclusive /\ conn.pc = "wait_scan") ~> (conn.pc = "connect")

(***************************************************************************)
(* Properties of the request ids (specification SpecIds).                  *)
(***************************************************************************)
\* C31: no two requests accepted by enqueue_request share an id, ids
\* supplied by IPC clients included, and the active-request table maps the
\* id of every request that has not finished to that request.
C31_UniqueRequestIds ==
    /\ \A j, k \in DOMAIN idq.requests :
          idq.requests[j].request_id = idq.requests[k].request_id => j = k
    /\ \A k \in DOMAIN idq.requests :
          idq.requests[k].status \in {"PENDING", "PROCESSING"}
          => idq.active[idq.requests[k].request_id] = k

(***************************************************************************)
(* Properties of the subscriptions of several clients (specification       *)
(* SpecDelivery).                                                          *)
(***************************************************************************)
\* connection w is subscribed to characteristic c under some callback id
SubscribedTo(w, c) ==
    \E cb \in CallbackIds : cb[2] = c /\ w \in notification_subscribers[cb]

\* the notifications of characteristic c reach connection w: the driver
\* notifies on c, the key of c maps to a callback id, w is in its set
Receives(w, c) ==
    /\ \E t \in Tasks : nm.task[t].connected /\ c \in nm.task[t].notifying
    /\ nm.callback_map[c] # NoCallback
    /\ w \in notification_subscribers[nm.callback_map[c]]

\* this step is (part of) a subscribe or unsubscribe command of connection v
CommandOf(v) ==
    \/ command'[v] # command[v]
    \/ \E cb \in CallbackIds :
          (v \in notification_subscribers'[cb]) # (v \in notification_subscribers[cb])

\* C32: a subscribe or unsubscribe issued by one IPC client for a
\* characteristic never changes which notifications another client that
\* stays subscribed to that characteristic receives: if they reached it
\* before the command, they reach it after.
C32_OtherClientsUnaffected ==
    [][\A v \in Writers : CommandOf(v) =>
          \A w \in Writers \ {v} : \A c \in Chars :
              (Receives(w, c) /\ SubscribedTo(w, c)') => Receives(w, c)']_vars

\* the tasks of the event loop run, the driver answers the connector, and
\* writes to the clients' connections drain; nothing is assumed of what the
\* clients send or of what the peripheral emits
FairDelivery ==
    /\ SpecDelivery
    /\ WF_vars(\E t \in Tasks : TaskRun(t))
    /\ WF_vars(\E t \in Tasks : TaskConnectOk(t, 1))
    /\ WF_vars(\E w \in Writers : LockAcquired(w, TRUE, TRUE))
    /\ WF_vars(\E i \in 1..MaxEmit : DeliveryStart(i))
    /\ WF_vars(\E i \in 1..MaxEmit : DeliveryResume(i))

\* the notification manager holds a subscription (the key of the
\* characteristic maps to cb) or a connection that notifies for cb
HeldFor(cb) ==
    /\ nm.callback_map[cb[2]] = cb
    /\ \/ nm.subscriptions.present /\ cb[2] \in nm.subscriptions.chars
       \/ \E t \in Tasks : nm.task[t].connected

\* C33: whenever the subscriber set of a callback id in the IPC server has
\* become empty (by unsubscribe, connection close or write failure) while
\* the notification manager holds a subscription for it, the notification
\* manager eventually holds no subscription and no peripheral connection
\* for that callback id (unless a client has subscribed to it again).
C33_EmptySetReleasesSubscription ==
    \A cb \in CallbackIds :
        (notification_subscribers[cb] = {} /\ HeldFor(cb) /\ command = [w \in Writers |-> NoCommand])
            ~> (~HeldFor(cb) \/ notification_subscribers[cb] # {})

(***************************************************************************)
(* Further properties of the IPC requests (specification SpecIpc).         *)
(***************************************************************************)
\* the requester of request id has been sent the error "Request timed out"
ToldTimedOut(id) ==
    \E w \in Writers : \E k \in DOMAIN replies[w] :
        /\ replies[w][k].kind = "send_command"
        /\ replies[w][k].request_id = id
        /\ replies[w][k].error = "Request timed out"

\* C34: if the reply to a send_command is the error "Request timed out",
\* the write is not performed afterwards: a request whose requester has
\* been told that it timed out is never passed to the handler later.
C34_NoDispatchAfterTimeoutReply ==
    [][\A id \in Ids : DispatchOf(id) => ~ToldTimedOut(id)]_vars

(***************************************************************************)
(* Properties of the delivery with several characteristics (specification  *)
(* SpecUnsubscribe).                                                       *)
(***************************************************************************)
\* C35: with several characteristics subscribed on one address, every
\* notification written to a client carries the characteristic_uuid of the
\* characteristic on which the driver emitted it, and the callback_id
\* subscribed for that characteristic.
C35_DeliveredUnderOwnCharacteristic ==
    \A w \in Writers : \A k \in DOMAIN lines[w] :
        LET line == lines[w][k]
            emitted == emissions[line.value].char
        IN  /\ line.characteristic_uuid = emitted
            /\ line.callback_id[2] = emitted


(***************************************************************************)
(* Properties of the scanner's recreate procedure (SpecRecreate).          *)
(***************************************************************************)
\* C36: the recreate procedure notifies the watchdog only when its recreate
\* counter has reached 3: every notification it sent was sent at a counter
\* of 3 or more, and a recreation that left the counter below 3 sent none.
C36_NotifiesAtThirdRecreation ==
    \A i \in DOMAIN recreation.notified : recreation.notified[i] >= 3

(***************************************************************************)
(* Properties of one full recovery run (SpecRecovery).                     *)
(***************************************************************************)
\* the recovery succeeded: the service restart succeeded and the query after
\* it found every adapter up
RecoverySucceeded(run) == run.restarted /\ run.queried /\ run.final_issues = {}

\* C37 (the first half): a run of the full recovery that has ended, by
\* returning or by raising, has left recovery_in_progress false.
C37_EndsWithFlagCleared ==
    fullrec.pc = "done" => ~watchdog.recovery_in_progress

\* C37: a run of the full recovery that has ended has left
\* recovery_in_progress false, and it has reset the handler's failure
\* counter only if the recovery succeeded.
C37_ResetOnlyAfterSuccess ==
    /\ fullrec.pc = "done" => ~watchdog.recovery_in_progress
    /\ fullrec.reset_failures => RecoverySucceeded(fullrec)

(***************************************************************************)
(* Properties of the periodic check of the watchdog (SpecWatchdog).        *)
(***************************************************************************)
\* C38: a round of the periodic check that found consecutive_failures at
\* the threshold and no recovery in progress has started exactly one full
\* recovery, and a round that found the count below the threshold and every
\* adapter up has started none.
C38_CheckStartsOneRecovery ==
    /\ watchdog.round.due => watchdog.round.started = 1
    /\ watchdog.round.below /\ watchdog.round.all_up => watchdog.round.started = 0

(***************************************************************************)
(* Properties of the queue statistics (SpecStats).                         *)
(***************************************************************************)
\* the requests a worker has taken out of its queue and not yet finished
InFlight ==
    (IF main.pc \in {"idle", "stopped"} THEN 0 ELSE 1)
        + Cardinality({w \in ScanWorkers : scan_cur[w] # 0})

\* the counters of _stats other than processing_requests
MonotoneCounters ==
    {"total_requests", "completed_requests", "failed_requests",
     "timeout_requests", "skipped_requests", "scan_requests",
     "scan_completed", "scan_failed"}

\* C39: no counter of the queue statistics other than processing_requests
\* ever decreases, and processing_requests is always the number of requests
\* a worker has dequeued and not yet finished, whatever the enqueues,
\* dispatches, skips, timeouts, failures and the stop.
C39_CountersMonotoneProcessingInFlight ==
    /\ [](stats.processing_requests = InFlight)
    /\ [][\A c \in MonotoneCounters : stats'[c] >= stats[c]]_vars

\* C39 witness: a request timed out, one was skipped for its age, and stop()
\* cancelled the worker in the middle of a third
C39_Witness ==
    /\ stats.timeout_requests > 0
    /\ stats.skipped_requests > 0
    /\ main.pc = "stopped"
    /\ \E id \in Ids : request[id].status = "PROCESSING"

(***************************************************************************)
(* Properties of the queue-size check (SpecSweep).                         *)
(***************************************************************************)
\* C40: a queue-size check that found 50 or more requests pending wrote a
\* record of critical level, and one that found more than 20 and fewer than
\* 50 wrote a record of warning level.
C40_CriticalAtFifty ==
    /\ sweep.seen >= 50 => "CRITICAL" \in sweep.levels
    /\ sweep.seen > 20 /\ sweep.seen < 50 => "WARNING" \in sweep.levels

=============================================================================
